---- MODULE Spec2Model ----
(***************************************************************************)
(* Model of the macrohub input-remapping macros.                           *)
(*                                                                         *)
(* Part 1: the SOCD cleaner (src/macros/socd.py): one Axis object, the key *)
(* events the run loop reads from an input device, and the key events the  *)
(* loop writes to the virtual keyboard.                                    *)
(*                                                                         *)
(* Time is the value of time.monotonic(), counted in whole units.  Every   *)
(* key event is read at a strictly later clock value than the previous one *)
(* (the clock has nanosecond resolution), and on_key and the pick that     *)
(* follows it in the loop read the same clock value (they are microseconds *)
(* apart, the configured delays are milliseconds).                         *)
(*                                                                         *)
(* The loop reads one input device.  The kernel reports a key of a device  *)
(* only when its state changes, so key-down and key-up events of a key     *)
(* alternate (value 2 repeats are ignored by the loop for axis keys).      *)
(***************************************************************************)
EXTENDS Integers, Sequences, FiniteSets, TLC

VARIABLES
    ax,               \* the Axis object (socd.py Axis.__init__)
    phys,             \* key state of the input device the loop reads
    now,              \* time.monotonic()
    vkbd,             \* key state of the virtual keyboard (self.ui)
    emitted,          \* ui.write calls of the last loop step, in order
    held_order,       \* history: held keys, oldest press first
    last_change_time, \* history: clock value of the last change of ax.out, 0 = never
    picked,           \* history: result of the last pick() not followed by on_key, NoPick = none
    sm,               \* the StraferMacro object (strafer.py StraferMacro.__init__)
    cfg,              \* the strafer's configuration (self.cfg and what __init__ derives from it)
    clock,            \* time.perf_counter()
    inp,              \* state of the strafer's input devices: the keys and buttons held
    carry,            \* the local variable carry of StraferMacro._move_loop
    sink,             \* the strafer's virtual keyboard and mouse
    hist,             \* history of the strafer: what the last loop iteration did
    su,               \* the SOCD cleaner at start-up: its AXES configuration, axes and log
    ac,               \* the AutoClicker object, its two threads and its devices
    poll,             \* the input sources a macro's loop polls
    store,            \* a strafer configuration, its file and the configuration loaded from it
    twin,             \* two Axis objects, first and invert mode, fed the same events
    cl,               \* the SOCD cleaner at shutdown: its threads and its virtual keyboard
    scroll,           \* the DahoodScrollMacro object and its scroll worker thread
    hop,              \* the WallhopMacro object and its flick worker threads
    boot,             \* the DahoodScrollMacro object during start()
    mgr               \* the MacroManager: running_macros, the subprocesses, the monitor threads

socdVars == <<ax, phys, now, vkbd, emitted, held_order, last_change_time, picked>>
straferVars == <<sm, cfg, clock, inp, carry, sink, hist>>
earlyVars == <<su, ac, poll, store>>
lateVars == <<twin, cl, scroll, hop, boot, mgr>>
auxVars == <<su, ac, poll, store, twin, cl, scroll, hop, boot, mgr>>
vars == <<ax, phys, now, vkbd, emitted, held_order, last_change_time, picked,
          sm, cfg, clock, inp, carry, sink, hist, su, ac, poll, store,
          twin, cl, scroll, hop, boot, mgr>>

\* the value of the variables of a macro that is not the one running
Absent == "absent"

\* the macros and program parts of the later sections are not running
EarlyAbsent == su = Absent /\ ac = Absent /\ poll = Absent /\ store = Absent
LateAbsent ==
    /\ twin = Absent /\ cl = Absent /\ scroll = Absent /\ hop = Absent
    /\ boot = Absent /\ mgr = Absent
AuxAbsent == EarlyAbsent /\ LateAbsent

\* the SOCD loop is not running
SocdAbsent ==
    /\ ax = Absent /\ phys = Absent /\ now = Absent /\ vkbd = Absent
    /\ emitted = Absent /\ held_order = Absent /\ last_change_time = Absent
    /\ picked = Absent

\* the strafer is not running
StraferAbsent ==
    /\ sm = Absent /\ cfg = Absent /\ clock = Absent /\ inp = Absent
    /\ carry = Absent /\ sink = Absent /\ hist = Absent

----------------------------------------------------------------------------
(* Bounds of the model *)

NumKeys == 3          \* keys of the axis (the code requires at least 2)
StartTime == 3        \* clock value at start (time since boot; exceeds every delay)
MaxTime == 9          \* the clock stops here
SwapDelay == 3        \* the non-zero swap_delay of the model
TimeoutNeutral == 2   \* the non-zero timeout_neutral of the model

Keys == 1..NumKeys
None == 0             \* Python None for a key code
NoPick == <<>>

AVAILABLE_MODES ==
    {"recent", "first", "neutral", "priority", "combine", "invert", "sticky", "toggle"}

\* priority lists of the model: none, one key, two keys
PriorityLists == {<<>>, <<2>>, <<3, 1>>}

----------------------------------------------------------------------------
(* Helpers for Python dict / list operations (dicts iterate in key order) *)

\* {k: False for k in keys}
AllFalse == [k \in Keys |-> FALSE]

\* {k: (k in S) for k in keys}
Mirror(S) == [k \in Keys |-> k \in S]

\* {k: (k == c) for k in keys}
Only(c) == [k \in Keys |-> k = c]

\* max(S, key=f): the first element in iteration order with the greatest f
PyMax(S, f) ==
    CHOOSE k \in S : /\ \A j \in S : f[j] <= f[k]
                     /\ \A j \in S : (f[j] = f[k]) => k <= j

\* min(S, key=f): the first element in iteration order with the least f
PyMin(S, f) ==
    CHOOSE k \in S : /\ \A j \in S : f[k] <= f[j]
                     /\ \A j \in S : (f[j] = f[k]) => k <= j

\* next((k for k,on in d.items() if on), None)
FirstOn(d) ==
    IF \E k \in Keys : d[k]
    THEN CHOOSE k \in Keys : d[k] /\ \A j \in Keys : d[j] => k <= j
    ELSE None

RemoveKey(s, k) == SelectSeq(s, LAMBDA x : x # k)

----------------------------------------------------------------------------
(* class Axis *)

\* Axis.__init__
NewAxis(m, prio, sd, tn) ==
    [ mode             |-> m,
      down             |-> AllFalse,
      out              |-> AllFalse,
      last             |-> None,
      t0               |-> [k \in Keys |-> 0],
      priority         |-> prio,
      swap_delay       |-> sd,
      last_switch_time |-> 0,
      timeout_neutral  |-> tn,
      conflict_start   |-> 0,
      toggle_active    |-> None ]

\* Axis._pressed
pressed(a) == {k \in Keys : a.down[k]}

\* Axis._pressed_count
pressed_count(a) == Cardinality({k \in Keys : a.down[k]})

\* Axis._debounce_ok, the clock reading t
debounce_ok(a, t) ==
    IF a.swap_delay <= 0 THEN TRUE
    ELSE (t - a.last_switch_time) >= a.swap_delay

\* Axis._note_switch, the clock reading t
note_switch(a, t) == [a EXCEPT !.last_switch_time = t]

\* Axis._timeout_neutral_active, the clock reading t
timeout_neutral_active(a, t) ==
    IF a.timeout_neutral <= 0 THEN FALSE
    ELSE IF pressed_count(a) < 2 THEN FALSE
    ELSE (t - a.conflict_start) >= a.timeout_neutral

\* on_key_toggle that acts on UP edges as well
on_key_toggle_any_edge(a, code, is_down) ==
    IF a.toggle_active = code
    THEN [a EXCEPT !.toggle_active = None]
    ELSE [a EXCEPT !.toggle_active = code]

\* Axis.on_key in toggle mode: act on DOWN edges only
on_key_toggle(a, code, is_down) ==
    IF is_down
    THEN IF a.toggle_active = code
         THEN [a EXCEPT !.toggle_active = None]
         ELSE [a EXCEPT !.toggle_active = code]
    ELSE a

\* Axis.on_key, the clock reading t; the axis after the call
on_key(a, code, is_down, t) ==
    IF code \notin Keys THEN a
    ELSE IF a.mode = "toggle" THEN on_key_toggle(a, code, is_down)
    ELSE
        LET a1 == [a EXCEPT !.down[code] = is_down]
            a2 == IF is_down
                  THEN [a1 EXCEPT !.last = code,
                                  !.t0[code] = IF a1.t0[code] = 0 THEN t ELSE a1.t0[code]]
                  ELSE [a1 EXCEPT !.t0[code] = 0]
        IN  IF pressed_count(a2) >= 2
            THEN IF a2.conflict_start = 0
                 THEN [a2 EXCEPT !.conflict_start = t]
                 ELSE a2
            ELSE [a2 EXCEPT !.conflict_start = 0]

\* recent_choice with min in place of max in the fallback
recent_choice_oldest(a) ==
    IF a.last \in pressed(a) THEN a.last ELSE PyMin(pressed(a), a.t0)

\* chosen = self.last if self.last in pressed else max(pressed, key=t0)
recent_choice(a) ==
    IF a.last \in pressed(a) THEN a.last ELSE PyMax(pressed(a), a.t0)

\* the first key of self.priority that is pressed, None when there is none
priority_choice(a) ==
    LET hits == {i \in DOMAIN a.priority : a.priority[i] \in pressed(a)}
    IN  IF hits = {} THEN None
        ELSE a.priority[CHOOSE i \in hits : \A j \in hits : i <= j]

\* if not self.out.get(chosen, False): self._note_switch()
note_if_new(a, chosen, t) ==
    IF ~a.out[chosen] THEN note_switch(a, t) ELSE a

\* pick_combine that drops the output on a conflict, as neutral mode does
pick_combine_exclusive(a) ==
    [ret |-> IF Cardinality(pressed(a)) >= 2 THEN AllFalse ELSE Mirror(pressed(a)),
     ax  |-> a]

\* pick, mode "combine": mirror all pressed
pick_combine(a) == [ret |-> Mirror(pressed(a)), ax |-> a]

\* pick, mode "toggle": exclusive toggle
pick_toggle(a) == [ret |-> Only(a.toggle_active), ax |-> a]

\* pick, mode "neutral" or timeout-neutral active
pick_neutral(a) ==
    [ret |-> IF Cardinality(pressed(a)) >= 2 THEN AllFalse ELSE Mirror(pressed(a)),
     ax  |-> a]

\* pick, at most one key pressed: simple mirror
pick_mirror(a) == [ret |-> Mirror(pressed(a)), ax |-> a]

\* pick_sticky that does not keep the current winner
pick_sticky_forgets(a, t) == [ret |-> Only(recent_choice(a)), ax |-> note_switch(a, t)]

\* pick, mode "sticky" with two or more keys pressed
pick_sticky(a, t) ==
    LET current_winner == FirstOn(a.out)
    IN  IF current_winner # None /\ (\E k \in Keys : a.down[k])
        THEN [ret |-> Only(current_winner), ax |-> a]
        ELSE IF ~debounce_ok(a, t)
        THEN [ret |-> IF current_winner # None THEN Only(current_winner) ELSE AllFalse,
              ax  |-> a]
        ELSE [ret |-> Only(recent_choice(a)), ax |-> note_switch(a, t)]

\* pick_first with the exclusivity forgotten: every pressed key is sent out
pick_first_mirrors(a) == [ret |-> Mirror(pressed(a)), ax |-> a]

\* pick, mode "first" with two or more keys pressed
pick_first(a) == [ret |-> Only(PyMin(pressed(a), a.t0)), ax |-> a]

\* pick, mode "invert" with two or more keys pressed
pick_invert(a, t) ==
    IF ~debounce_ok(a, t) THEN [ret |-> a.out, ax |-> a]
    ELSE LET chosen == PyMin(pressed(a), a.t0)
         IN  [ret |-> Only(chosen), ax |-> note_if_new(a, chosen, t)]

\* pick_priority that ignores the priority list (the recent rule)
pick_priority_ignores_list(a, t) ==
    IF ~debounce_ok(a, t) THEN [ret |-> a.out, ax |-> a]
    ELSE [ret |-> Only(recent_choice(a)), ax |-> note_if_new(a, recent_choice(a), t)]

\* pick, mode "priority" with two or more keys pressed
pick_priority(a, t) ==
    IF ~debounce_ok(a, t) THEN [ret |-> a.out, ax |-> a]
    ELSE LET chosen == IF priority_choice(a) # None THEN priority_choice(a)
                       ELSE recent_choice(a)
         IN  [ret |-> Only(chosen), ax |-> note_if_new(a, chosen, t)]

\* pick, mode "recent" (default) with two or more keys pressed
pick_recent(a, t) ==
    IF ~debounce_ok(a, t) THEN [ret |-> a.out, ax |-> a]
    ELSE LET chosen == recent_choice(a)
         IN  [ret |-> Only(chosen), ax |-> note_if_new(a, chosen, t)]

\* Axis.pick, the clock reading t: ret is the returned map, ax the axis after the call
pick(a, t) ==
    IF a.mode = "combine" THEN pick_combine(a)
    ELSE IF a.mode = "toggle" THEN pick_toggle(a)
    ELSE IF a.mode = "neutral" \/ timeout_neutral_active(a, t) THEN pick_neutral(a)
    ELSE IF Cardinality(pressed(a)) <= 1 THEN pick_mirror(a)
    ELSE IF a.mode = "sticky" THEN pick_sticky(a, t)
    ELSE IF a.mode = "first" THEN pick_first(a)
    ELSE IF a.mode = "invert" THEN pick_invert(a, t)
    ELSE IF a.mode = "priority" THEN pick_priority(a, t)
    ELSE pick_recent(a, t)

----------------------------------------------------------------------------
(* SOCDCleaner.loop: the body run for one EV_KEY event of an axis key *)

\* changed_keys without the cur != want test: the full state is written
changed_keys_all(cur, desired) == Keys

\* "emit only changes": the keys the loop writes, in dict order
changed_keys(cur, desired) == {k \in Keys : cur[k] # desired[k]}

RECURSIVE writes_from(_, _, _)
\* the ui.write calls for keys k..NumKeys: <<key, value>> for each changed key
writes_from(cur, desired, k) ==
    IF k > NumKeys THEN <<>>
    ELSE (IF k \in changed_keys(cur, desired) THEN <<(<<k, desired[k]>>)>> ELSE <<>>)
         \o writes_from(cur, desired, k + 1)

RECURSIVE ui_write(_, _)
\* the virtual keyboard's key state after a sequence of ui.write calls
ui_write(kbd, ws) ==
    IF ws = <<>> THEN kbd
    ELSE ui_write([kbd EXCEPT ![Head(ws)[1]] = Head(ws)[2]], Tail(ws))

\* the axis and the virtual keyboard after "emit only changes" for the map desired
emit_changes(a, desired) ==
    LET ws == writes_from(a.out, desired, 1)
    IN  [ax |-> [a EXCEPT !.out = [k \in Keys |->
                     IF k \in changed_keys(a.out, desired) THEN desired[k] ELSE a.out[k]]],
         writes |-> ws]

\* ax.on_key(code, val==1); desired=ax.pick(); emit only changes
LoopStep(code, is_down, t) ==
    LET a1 == on_key(ax, code, is_down, t)
        p  == pick(a1, t)
        e  == emit_changes(p.ax, p.ret)
    IN  /\ ax' = e.ax
        /\ emitted' = e.writes
        /\ vkbd' = ui_write(vkbd, e.writes)
        /\ last_change_time' = IF e.ax.out # ax.out THEN t ELSE last_change_time
        /\ picked' = NoPick

\* the device reports key k going down (value 1)
KeyDown(k) ==
    /\ now < MaxTime
    /\ ~phys[k]
    /\ phys' = [phys EXCEPT ![k] = TRUE]
    /\ now' = now + 1
    /\ held_order' = Append(held_order, k)
    /\ LoopStep(k, TRUE, now + 1)
    /\ UNCHANGED straferVars
    /\ UNCHANGED auxVars

\* the device reports key k going up (value 0)
KeyUp(k) ==
    /\ now < MaxTime
    /\ phys[k]
    /\ phys' = [phys EXCEPT ![k] = FALSE]
    /\ now' = now + 1
    /\ held_order' = RemoveKey(held_order, k)
    /\ LoopStep(k, FALSE, now + 1)
    /\ UNCHANGED straferVars
    /\ UNCHANGED auxVars

\* select() times out with nothing to read: time passes, the loop does nothing
Idle ==
    /\ now < MaxTime
    /\ now' = now + 1
    /\ emitted' = <<>>
    /\ UNCHANGED <<ax, phys, vkbd, held_order, last_change_time, picked>>
    /\ UNCHANGED straferVars
    /\ UNCHANGED auxVars

Init ==
    /\ \E m \in AVAILABLE_MODES, sd \in {0, SwapDelay}, tn \in {0, TimeoutNeutral},
          prio \in PriorityLists :
          /\ (m # "priority") => (prio = <<>>)
          /\ ax = NewAxis(m, prio, sd, tn)
    /\ phys = AllFalse
    /\ now = StartTime
    /\ vkbd = AllFalse
    /\ emitted = <<>>
    /\ held_order = <<>>
    /\ last_change_time = 0
    /\ picked = NoPick
    /\ sm = Absent /\ cfg = Absent /\ clock = Absent /\ inp = Absent
    /\ carry = Absent /\ sink = Absent /\ hist = Absent
    /\ AuxAbsent

Next ==
    \/ \E k \in Keys : KeyDown(k)
    \/ \E k \in Keys : KeyUp(k)
    \/ Idle

Spec == Init /\ [][Next]_vars

\* a caller invokes ax.pick() by itself at the current clock value, and either
\* applies the returned map as the loop does or discards it
PickCall(applied) ==
    LET p == pick(ax, now)
        e == IF applied THEN emit_changes(p.ax, p.ret) ELSE [ax |-> p.ax, writes |-> <<>>]
    IN  /\ picked' = p.ret
        /\ ax' = e.ax
        /\ emitted' = e.writes
        /\ vkbd' = ui_write(vkbd, e.writes)
        /\ last_change_time' = IF e.ax.out # ax.out THEN now ELSE last_change_time
        /\ UNCHANGED <<phys, now, held_order>>
        /\ UNCHANGED straferVars
        /\ UNCHANGED auxVars

NextPick ==
    \/ Next
    \/ \E applied \in BOOLEAN : PickCall(applied)

SpecPick == Init /\ [][NextPick]_vars

----------------------------------------------------------------------------
(* Properties of the SOCD axis engine *)

ExclusiveModes == AVAILABLE_MODES \ {"combine", "toggle"}
SwapDelayModes == {"recent", "first", "invert", "priority", "sticky"}

OutKeys == {k \in Keys : ax.out[k]}
HeldKeys == {k \in Keys : ax.down[k]}
PlainAxis == ax.swap_delay = 0 /\ ax.timeout_neutral = 0

\* a loop step for a key-down / key-up event of key k
IsKeyDown(k) == ~phys[k] /\ phys'[k]
IsKeyUp(k) == phys[k] /\ ~phys'[k]

\* C1: in every mode other than combine and toggle, with or without swap-delay
\* and neutral-timeout, after every loop step at most one key has out = true.
C1_AtMostOneOut ==
    (ax.mode \in ExclusiveModes) => (Cardinality(OutKeys) <= 1)

\* C1 witness: a conflict of two or more held keys on an axis with swap-delay
\* and neutral-timeout, resolved to exactly one output key.
C1_Witness ==
    /\ ax.mode \in ExclusiveModes
    /\ ax.swap_delay > 0 /\ ax.timeout_neutral > 0
    /\ Cardinality(HeldKeys) >= 2
    /\ Cardinality(OutKeys) = 1

\* C2: in recent mode without swap-delay and neutral-timeout, after every
\* processed key event the output is exactly the most recently pressed key among
\* the keys still held, and no key when none is held.
C2_RecentIsLastHeld ==
    (ax.mode = "recent" /\ PlainAxis) =>
        ax.out = (IF held_order = <<>> THEN AllFalse
                  ELSE Only(held_order[Len(held_order)]))

\* C2 witness: two keys are held, the key pressed last has been released, and
\* the output went back to the later-pressed of the two held keys with no new press.
C2_Witness ==
    /\ ax.mode = "recent" /\ PlainAxis
    /\ Len(held_order) = 2
    /\ ax.last \notin HeldKeys
    /\ ax.out = Only(held_order[2])

\* C3 (as claimed): in sticky mode, once a key is the output it stays the output
\* through every key event after which some key of the axis is still held.
C3_StickyUntilAllReleased ==
    [][(ax.mode = "sticky" /\ OutKeys # {} /\ (\E j \in Keys : ax'.down[j]))
          => (ax'.out = ax.out)]_vars

C5_Toggle ==
    [][\A k \in Keys :
         (ax.mode = "toggle") =>
            /\ IsKeyUp(k) => (ax'.toggle_active = ax.toggle_active /\ ax'.out = ax.out
                              /\ emitted' = <<>>)
            /\ (IsKeyDown(k) /\ ax.toggle_active = k) =>
                  (ax'.toggle_active = None /\ ax'.out = AllFalse)
            /\ (IsKeyDown(k) /\ ax.toggle_active # k) =>
                  (ax'.toggle_active = k /\ ax'.out = Only(k))]_vars

\* C5 witness: toggle mode, a second key-down of the active key has just
\* switched it off (its key-up was written), after which nothing is toggled on.
C5_Witness ==
    /\ ax.mode = "toggle"
    /\ ax.toggle_active = None
    /\ \E k \in Keys : emitted = <<(<<k, FALSE>>)>> /\ phys[k]
    /\ ax.out = AllFalse

\* C6: in combine mode, after every processed key event out[k] = down[k] for
\* every key k, and down is the state of the keys as the device reported them.
C6_CombineMirrors ==
    (ax.mode = "combine") => (\A k \in Keys : ax.out[k] = ax.down[k] /\ ax.down[k] = phys[k])

\* C6 witness: combine mode with two keys held and both sent out.
C6_Witness ==
    /\ ax.mode = "combine"
    /\ Cardinality(OutKeys) >= 2
    /\ OutKeys = HeldKeys

\* C7 (as claimed): two pick() calls with no on_key call in between return the
\* same map, whether or not time passes and whether or not the first was applied.
C7_PickIdempotent ==
    [][(picked # NoPick /\ picked' # NoPick) => (picked' = picked)]_vars

\* C8 (as claimed): with swap_delay > 0, in the modes swap-delay applies to,
\* two consecutive changes of the output are at least swap_delay apart.
C8_ChangesSwapDelayApart ==
    [][(ax.swap_delay > 0 /\ ax.mode \in SwapDelayModes
          /\ ax'.out # ax.out /\ last_change_time # 0)
          => (now' - last_change_time >= ax.swap_delay)]_vars

\* C9 (as claimed): with timeout_neutral > 0 in a mode other than combine and
\* toggle, whenever two keys have both been held for longer than
\* timeout_neutral the output is neutral.
C9_NeutralAfterTimeout ==
    (/\ ax.timeout_neutral > 0
     /\ ax.mode \in ExclusiveModes
     /\ \E j, k \in Keys :
           /\ j # k /\ ax.down[j] /\ ax.down[k]
           /\ now - ax.t0[j] > ax.timeout_neutral
           /\ now - ax.t0[k] > ax.timeout_neutral)
    => (ax.out = AllFalse)

\* C10: a key event is written to the virtual keyboard only for a key whose
\* desired value differs from out[k]: every write changes the key state of the
\* virtual keyboard (so the writes of a key alternate down, up, down, ...
\* starting with down), no key is written twice in a step, exactly the keys
\* whose out changed are written, and out equals the last values written.
C10_OnlyTransitions ==
    [][/\ \A i \in DOMAIN emitted' :
             /\ emitted'[i][2] # vkbd[emitted'[i][1]]
             /\ \A j \in DOMAIN emitted' : (emitted'[j][1] = emitted'[i][1]) => (i = j)
       /\ {emitted'[i][1] : i \in DOMAIN emitted'} = {k \in Keys : ax'.out[k] # ax.out[k]}
       /\ \A k \in Keys : ax'.out[k] = vkbd'[k]]_vars

\* C10 witness: one loop step wrote a key-up for the old winner and a key-down
\* for the new one, and out agrees with the virtual keyboard.
C10_Witness ==
    /\ Len(emitted) = 2
    /\ ~emitted[1][2] = emitted[2][2]
    /\ \A k \in Keys : ax.out[k] = vkbd[k]

----------------------------------------------------------------------------
(***************************************************************************)
(* Part 2: the strafer (src/macros/strafer.py): the StraferMacro object,   *)
(* the events its loop reads, the SPACE speed ramp, the motion integrator  *)
(* and its virtual keyboard and mouse.                                     *)
(*                                                                         *)
(* Speeds and velocities are Python floats; the model keeps them as        *)
(* fixed-point numbers (px/s times SpeedScale), which is exact for every   *)
(* value the model computes (ExactArithmetic below).  The tolerances 1e-6  *)
(* and 1e-9 of the ramp code are below the resolution of the model.        *)
(***************************************************************************)

MaxClock == 8         \* the strafer's clock stops here
MaxGap == 2           \* longest time between two loop iterations

\* fixed-point scale of a float speed
SpeedScale == 3 * 32
px(v) == v * SpeedScale

NoMode == "none"      \* Python None for self.mode / self.last_pressed

\* self.seg_target: None, ("__WAIT__", t) or a float
NoTarget == [kind |-> "none", val |-> 0]
WaitTarget(t) == [kind |-> "wait", val |-> t]
NumTarget(v) == [kind |-> "num", val |-> v]

\* StraferMacro.__init__ with configuration c
NewStrafer(c) ==
    [ mode                 |-> NoMode,
      held_key_code        |-> None,
      vel                  |-> 0,
      speedup              |-> FALSE,
      slowdown             |-> FALSE,
      move_delay_until     |-> 0,
      mouse_paused         |-> FALSE,
      wheel_adjust_mode    |-> TRUE,
      a_down               |-> FALSE,
      d_down               |-> FALSE,
      last_pressed         |-> NoMode,
      space_down           |-> FALSE,
      space_press_t        |-> 0,
      space_original_speed |-> 0,
      seg_idx              |-> -1,
      seg_start_t          |-> 0,
      seg_end_t            |-> 0,
      seg_start_speed      |-> 0,
      seg_target           |-> NoTarget,
      seg_ticks_total      |-> 0,
      seg_tick_idx         |-> 0,
      next_tick_time       |-> 0,
      current_speed        |-> c.SPEED_DEFAULT,
      running              |-> TRUE ]

\* clamp(v, lo, hi)
clamp(v, lo, hi) == IF v < lo THEN lo ELSE IF v > hi THEN hi ELSE v

\* sgn(x)
sgn(x) == IF x < 0 THEN -1 ELSE IF x > 0 THEN 1 ELSE 0

\* clamp_speed without the limits
clamp_speed_off(c, x) == x

\* clamp(x, MIN_SPEED_PX_PER_SEC, MAX_SPEED_PX_PER_SEC)
clamp_speed(c, x) == clamp(x, c.MIN_SPEED, c.MAX_SPEED)

\* max(a, b) and min(a, b)
Max2(x, y) == IF x >= y THEN x ELSE y
Min2(x, y) == IF x <= y THEN x ELSE y

\* StraferMacro._bump_speed
bump_speed(a, c, steps) ==
    IF steps = 0 THEN a
    ELSE LET a1 == [a EXCEPT !.current_speed =
                        clamp_speed(c, a.current_speed + steps * c.SCROLL_SPEED_STEP)]
         IN  IF ~a1.space_down
             THEN [a1 EXCEPT !.space_original_speed = a1.current_speed]
             ELSE a1

\* StraferMacro._space_reset
space_reset(a) ==
    [a EXCEPT !.seg_idx = -1,
              !.seg_start_t = 0,
              !.seg_end_t = 0,
              !.seg_start_speed = 0,
              !.seg_target = NoTarget,
              !.seg_ticks_total = 0,
              !.seg_tick_idx = 0,
              !.next_tick_time = 0]

\* _space_prepare_segment when no checkpoint is left: self.seg_target = None
prepare_exhausted(a) == [a EXCEPT !.seg_target = NoTarget]

\* _space_prepare_segment: the fields of the segment toward checkpoint next_ix
\* (0-based as in the code), prepared at clock reading t
prepare_fields(a, c, next_ix, t) ==
    LET stage_abs_start == a.space_press_t + c.space_sched[next_ix + 1][1]
        stage_target == c.space_sched[next_ix + 1][2]
        segment_end == IF next_ix + 1 < Len(c.space_sched)
                       THEN a.space_press_t + c.space_sched[next_ix + 2][1]
                       ELSE t + c.space_tick_s
        total_dur == Max2(0, segment_end - stage_abs_start)
        ticks_total == Max2(1, total_dur \div c.space_tick_s)
        already == (t - stage_abs_start) \div c.space_tick_s
        tick_idx == IF t <= stage_abs_start THEN 0 ELSE Min2(already, ticks_total)
    IN  [a EXCEPT !.seg_idx = next_ix,
                  !.seg_start_t = stage_abs_start,
                  !.seg_end_t = segment_end,
                  !.seg_start_speed = a.current_speed,
                  !.seg_target = NumTarget(stage_target),
                  !.seg_ticks_total = ticks_total,
                  !.seg_tick_idx = tick_idx,
                  !.next_tick_time =
                      IF t <= stage_abs_start
                      THEN stage_abs_start + c.space_tick_s
                      ELSE stage_abs_start + (tick_idx + 1) * c.space_tick_s]

\* StraferMacro._space_prepare_segment(now), the clock reading t
RECURSIVE space_prepare_segment(_, _, _)
space_prepare_segment(a, c, t) ==
    LET next_ix == a.seg_idx + 1
    IN  IF next_ix >= Len(c.space_sched) THEN prepare_exhausted(a)
        ELSE
          LET stage_abs_start == a.space_press_t + c.space_sched[next_ix + 1][1]
              stage_target == c.space_sched[next_ix + 1][2]
          IN  IF t < stage_abs_start
              THEN [a EXCEPT !.seg_start_t = stage_abs_start,
                             !.seg_end_t = stage_abs_start,
                             !.seg_target = WaitTarget(stage_abs_start),
                             !.next_tick_time = stage_abs_start]
              ELSE IF ~c.space_allow_up /\ stage_target > a.current_speed
              THEN space_prepare_segment([a EXCEPT !.seg_idx = next_ix], c, t)
              ELSE
                LET a1 == prepare_fields(a, c, next_ix, t)
                IN  IF ~c.space_allow_up /\ a1.seg_start_speed <= a1.seg_target.val
                    THEN space_prepare_segment(a1, c, t)
                    ELSE a1

\* _space_start with the first target applied whatever the policy
start_target_always(a, c, s0) == s0

\* _space_start: tgt = s0 if (allow_up or s0 <= current_speed) else current_speed
start_target(a, c, s0) ==
    IF c.space_allow_up \/ s0 <= a.current_speed THEN s0 ELSE a.current_speed

\* StraferMacro._space_start, the clock reading t
space_start(a, c, t) ==
    IF Len(c.space_sched) = 0 THEN a
    ELSE
      LET a1 == [a EXCEPT !.space_press_t = t, !.space_down = TRUE]
          a2 == IF a1.space_original_speed = 0
                THEN [a1 EXCEPT !.space_original_speed = a1.current_speed]
                ELSE a1
          a3 == space_reset(a2)
          t0 == c.space_sched[1][1]
          s0 == c.space_sched[1][2]
          a4 == IF t0 <= 0
                THEN [a3 EXCEPT !.current_speed = clamp_speed(c, start_target(a3, c, s0)),
                                !.seg_idx = 0]
                ELSE [a3 EXCEPT !.seg_idx = -1]
      IN  space_prepare_segment(a4, c, t)

\* StraferMacro._space_stop
space_stop(a, c) ==
    LET a1 == [a EXCEPT !.space_down = FALSE]
        a2 == IF a1.space_original_speed > 0
              THEN [a1 EXCEPT !.current_speed = clamp_speed(c, a1.space_original_speed),
                              !.space_original_speed = 0]
              ELSE a1
    IN  space_reset(a2)

\* the new speed of a tick, every tick stepping from the start value
tick_speed_one_step(a, c) ==
    LET start == a.seg_start_speed
        target == a.seg_target.val
    IN  IF ~c.space_allow_up
        THEN LET step == Max2(0, start - target) \div a.seg_ticks_total
                 new_speed == start - step
             IN  IF new_speed < target THEN target ELSE new_speed
        ELSE LET step == (target - start) \div a.seg_ticks_total
             IN  IF a.seg_tick_idx + 1 = a.seg_ticks_total THEN target
                 ELSE start + step

\* _space_tick: new_speed of the tick with index seg_tick_idx
tick_speed(a, c) ==
    LET start == a.seg_start_speed
        target == a.seg_target.val
    IN  IF ~c.space_allow_up
        THEN LET step == Max2(0, start - target) \div a.seg_ticks_total
                 new_speed == start - step * (a.seg_tick_idx + 1)
             IN  IF new_speed < target THEN target ELSE new_speed
        ELSE LET step == (target - start) \div a.seg_ticks_total
             IN  IF a.seg_tick_idx + 1 = a.seg_ticks_total THEN target
                 ELSE start + step * (a.seg_tick_idx + 1)

\* _space_tick: the while loop over the due ticks of the segment
RECURSIVE tick_loop(_, _, _)
tick_loop(a, c, t) ==
    IF /\ a.seg_target.kind = "num"
       /\ a.seg_tick_idx < a.seg_ticks_total
       /\ t >= a.next_tick_time
    THEN tick_loop([a EXCEPT !.current_speed = clamp_speed(c, tick_speed(a, c)),
                             !.seg_tick_idx = a.seg_tick_idx + 1,
                             !.next_tick_time = a.next_tick_time + c.space_tick_s],
                   c, t)
    ELSE a

\* _space_tick whose final snap does not test that there is a target
space_tick_snaps_without_target(a, c, t) ==
    IF ~a.space_down THEN a
    ELSE IF a.seg_target.kind = "wait"
    THEN IF t >= a.seg_target.val THEN space_prepare_segment(a, c, t) ELSE a
    ELSE IF a.seg_target.kind = "none" /\ (a.seg_idx + 1) < Len(c.space_sched)
    THEN space_prepare_segment(a, c, t)
    ELSE
      LET a1 == tick_loop(a, c, t)
      IN  IF a1.seg_tick_idx >= a1.seg_ticks_total
          THEN space_prepare_segment(
                   [a1 EXCEPT !.current_speed = clamp_speed(c, a1.seg_target.val)], c, t)
          ELSE a1

\* StraferMacro._space_tick(now), the clock reading t
space_tick(a, c, t) ==
    IF ~a.space_down THEN a
    ELSE IF a.seg_target.kind = "wait"
    THEN IF t >= a.seg_target.val THEN space_prepare_segment(a, c, t) ELSE a
    ELSE IF a.seg_target.kind = "none" /\ (a.seg_idx + 1) < Len(c.space_sched)
    THEN space_prepare_segment(a, c, t)
    ELSE
      LET a1 == tick_loop(a, c, t)
      IN  IF a1.seg_target.kind = "num" /\ a1.seg_tick_idx >= a1.seg_ticks_total
          THEN space_prepare_segment(
                   [a1 EXCEPT !.current_speed = clamp_speed(c, a1.seg_target.val)], c, t)
          ELSE a1

----------------------------------------------------------------------------
(* evdev event types and codes the strafer names *)

EV_SYN == 0
EV_KEY == 1
EV_REL == 2
REL_X == 0
REL_WHEEL == 8
REL_WHEEL_HI_RES == 11
KEY_ESC == 1
KEY_LEFTCTRL == 29
KEY_A == 30
KEY_D == 32
KEY_LEFTSHIFT == 42
KEY_SPACE == 57
KEY_F9 == 67
KEY_LEFT == 105
BTN_MISC == 256
BTN_EXTRA == 276
BTN_GEAR_UP == 337

\* an input event
Event(type, code, value) == [type |-> type, code |-> code, value |-> value]

\* ui.write(type, code, value) on device dev, and ui.syn()
Write(dev, type, code, value) == <<dev, type, code, value>>
Syn(dev) == <<dev, EV_SYN, 0, 0>>

\* what a handler returns: the object after it and the writes it made, in order
Out(a, w) == [a |-> a, w |-> w]

\* StraferMacro._vk_down
vk_down(code) == <<Write("vkb", EV_KEY, code, 1), Syn("vkb")>>

\* StraferMacro._vk_up
vk_up(code) == <<Write("vkb", EV_KEY, code, 0), Syn("vkb")>>

\* vkb.write(EV_KEY, code, val); vkb.syn()
vkb_pass(code, val) == <<Write("vkb", EV_KEY, code, val), Syn("vkb")>>

\* vmouse.write(type, code, val); vmouse.syn()
vmouse_pass(type, code, val) == <<Write("vmouse", type, code, val), Syn("vmouse")>>

\* StraferMacro._emit_rel_x
emit_rel_x(c, dx) ==
    IF dx # 0
    THEN <<Write("vmouse", EV_REL, REL_X, IF c.INVERT_X THEN -dx ELSE dx), Syn("vmouse")>>
    ELSE <<>>

\* StraferMacro._press_and_hold, the clock reading t
press_and_hold(a, c, code, t) ==
    IF a.held_key_code = code THEN Out(a, <<>>)
    ELSE Out([a EXCEPT !.held_key_code = code,
                       !.move_delay_until = t + c.START_MOVE_DELAY_S],
             (IF a.held_key_code # None THEN vk_up(a.held_key_code) ELSE <<>>)
             \o vk_down(code))

\* _release_hold that forgets the held key without writing its key-up
release_hold_no_key_up(a) == Out([a EXCEPT !.held_key_code = None], <<>>)

\* StraferMacro._release_hold
release_hold(a) ==
    IF a.held_key_code # None
    THEN Out([a EXCEPT !.held_key_code = None], vk_up(a.held_key_code))
    ELSE Out(a, <<>>)

\* _resolve_mode in which the key pressed first wins while both are down
resolve_mode_first_wins(a) ==
    IF a.a_down /\ a.d_down
    THEN (IF a.last_pressed = "A" THEN "right" ELSE "left")
    ELSE IF a.a_down THEN "left"
    ELSE IF a.d_down THEN "right"
    ELSE NoMode

\* StraferMacro._resolve_mode
resolve_mode(a) ==
    IF a.a_down /\ a.d_down
    THEN (IF a.last_pressed = "A" THEN "left" ELSE "right")
    ELSE IF a.a_down THEN "left"
    ELSE IF a.d_down THEN "right"
    ELSE NoMode

\* _apply_mode that keeps the velocity when the direction is dropped
apply_mode_keeps_vel(a, c, new_mode, t) ==
    IF new_mode = a.mode THEN Out(a, <<>>)
    ELSE LET a1 == [a EXCEPT !.mode = new_mode]
         IN  IF new_mode = "left" THEN press_and_hold(a1, c, KEY_A, t)
             ELSE IF new_mode = "right" THEN press_and_hold(a1, c, KEY_D, t)
             ELSE release_hold(a1)

\* StraferMacro._apply_mode, the clock reading t
apply_mode(a, c, new_mode, t) ==
    IF new_mode = a.mode THEN Out(a, <<>>)
    ELSE LET a1 == [a EXCEPT !.mode = new_mode]
         IN  IF new_mode = "left" THEN press_and_hold(a1, c, KEY_A, t)
             ELSE IF new_mode = "right" THEN press_and_hold(a1, c, KEY_D, t)
             ELSE LET r == release_hold(a1)
                  IN  Out([r.a EXCEPT !.vel = 0], r.w)

\* _stop_motion_only that sets the flag and leaves the velocity
stop_motion_only_keeps_vel(a, paused) == [a EXCEPT !.mouse_paused = paused]

\* StraferMacro._stop_motion_only
stop_motion_only(a, paused) ==
    IF paused THEN [a EXCEPT !.mouse_paused = TRUE, !.vel = 0]
    ELSE [a EXCEPT !.mouse_paused = FALSE]

\* StraferMacro._toggle_wheel_adjust
toggle_wheel_adjust(a) == [a EXCEPT !.wheel_adjust_mode = ~a.wheel_adjust_mode]

\* _handle_event for the SPACE key, restarting the ramp at every press
space_key_event_restarts(a, c, val, t) ==
    IF val \in {1, 2} THEN space_start(a, c, t)
    ELSE IF val = 0 /\ c.SPACE_STOP_ON_RELEASE THEN space_stop(a, c)
    ELSE a

\* _handle_event for the SPACE key: the ramp part
space_key_event(a, c, val, t) ==
    IF val \in {1, 2}
    THEN IF c.SPACE_RESTART_ON_PRESS \/ ~a.space_down THEN space_start(a, c, t) ELSE a
    ELSE IF val = 0 /\ c.SPACE_STOP_ON_RELEASE THEN space_stop(a, c)
    ELSE a

\* _handle_event for an EV_REL event
handle_rel(a, c, ev) ==
    IF a.wheel_adjust_mode /\ ev.code = REL_WHEEL /\ ev.value # 0
    THEN Out(bump_speed(a, c, ev.value), <<>>)
    ELSE IF a.wheel_adjust_mode /\ ev.code = REL_WHEEL_HI_RES /\ ev.value # 0
    THEN LET raw == ev.value
             mag == IF raw < 0 THEN -raw ELSE raw
         IN  Out(bump_speed(a, c, sgn(raw) * Max2(1, mag \div 120)), <<>>)
    ELSE Out(a, vmouse_pass(ev.type, ev.code, ev.value))

\* _handle_event for an EV_KEY event, the clock reading t
handle_key(a, c, code, val, t) ==
    IF code = c.stop_btn
    THEN Out(IF val = 1 THEN stop_motion_only(a, TRUE)
             ELSE IF val = 0 THEN stop_motion_only(a, FALSE)
             ELSE a, <<>>)
    ELSE IF c.key_wheel_t # None /\ code = c.key_wheel_t
    THEN Out(IF val = 1 THEN toggle_wheel_adjust(a) ELSE a, vkb_pass(code, val))
    ELSE IF code = c.space_key
    THEN Out(space_key_event(a, c, val, t),
             IF c.SPACE_MIRROR_TO_GAME THEN vkb_pass(c.space_key, val) ELSE <<>>)
    ELSE IF code = c.key_left
    THEN LET a1 == IF val = 1 THEN [a EXCEPT !.a_down = TRUE, !.last_pressed = "A"]
                   ELSE IF val = 0 THEN [a EXCEPT !.a_down = FALSE]
                   ELSE a
         IN  apply_mode(a1, c, resolve_mode(a1), t)
    ELSE IF code = c.key_right
    THEN LET a1 == IF val = 1 THEN [a EXCEPT !.d_down = TRUE, !.last_pressed = "D"]
                   ELSE IF val = 0 THEN [a EXCEPT !.d_down = FALSE]
                   ELSE a
         IN  apply_mode(a1, c, resolve_mode(a1), t)
    ELSE IF c.key_pause # None /\ code = c.key_pause
    THEN LET r == IF val = 1
                  THEN apply_mode([a EXCEPT !.a_down = FALSE, !.d_down = FALSE,
                                            !.last_pressed = NoMode], c, NoMode, t)
                  ELSE Out(a, <<>>)
         IN  Out(r.a, r.w \o vkb_pass(c.key_pause, val))
    ELSE IF c.key_speed # None /\ code = c.key_speed
    THEN Out([a EXCEPT !.speedup = (val \in {1, 2})], vkb_pass(code, val))
    ELSE IF c.key_slow # None /\ code = c.key_slow
    THEN Out([a EXCEPT !.slowdown = (val \in {1, 2})], vkb_pass(code, val))
    ELSE IF code >= BTN_MISC /\ code <= BTN_GEAR_UP
    THEN Out(a, vmouse_pass(EV_KEY, code, val))
    ELSE Out(a, vkb_pass(code, val))

\* StraferMacro._handle_event, the clock reading t
handle_event(a, c, ev, t) ==
    IF ev.type # EV_KEY /\ ev.type # EV_REL
    THEN Out(a, vmouse_pass(ev.type, ev.code, ev.value))
    ELSE IF ev.type = EV_REL THEN handle_rel(a, c, ev)
    ELSE handle_key(a, c, ev.code, ev.value, t)

----------------------------------------------------------------------------
(* The motion integrator of _move_loop.                                    *)
(* Easing arguments are twentieths (t = x / 20), for which all three       *)
(* curves are rational; an easing returns the fraction <<num, den>>.       *)

\* round(20 * (1 - exp(-q / 4))) for q = 1 .. 16
ExpTable == <<4, 8, 11, 13, 14, 16, 17, 17, 18, 18, 19, 19, 19, 19, 20, 20>>

\* 1 - math.exp(-dt / max(tc, 1e-4)) in twentieths; tc is 1, 2 or 4 in the model
one_minus_exp(dt, tc) ==
    LET q == (4 * dt) \div tc
    IN  IF q <= 0 THEN 0
        ELSE IF q > Len(ExpTable) THEN 20
        ELSE ExpTable[q]

\* ease_linear
ease_linear(x) == <<x, 20>>

\* ease_cubic_in_out with the first branch taken for every t
ease_cubic_in_out_first_branch(x) == <<x * x * x, 2000>>

\* ease_cubic_in_out: 4t^3 if t < 0.5 else 1 - (-2t + 2)^3 / 2
ease_cubic_in_out(x) ==
    IF x < 10 THEN <<x * x * x, 2000>>
    ELSE <<2000 - (20 - x) * (20 - x) * (20 - x), 2000>>

\* ease_exp_in_out
ease_exp_in_out(x) ==
    IF x <= 0 THEN <<0, 1024>>
    ELSE IF x >= 20 THEN <<1024, 1024>>
    ELSE IF x < 10 THEN <<2 ^ (x - 1), 1024>>
    ELSE <<1024 - 2 ^ (19 - x), 1024>>

\* EASINGS.get(self.cfg["EASING"], ease_exp_in_out)(x)
ease(c, x) ==
    IF c.EASING = "linear" THEN ease_linear(x)
    ELSE IF c.EASING = "cubic_in_out" THEN ease_cubic_in_out(x)
    ELSE ease_exp_in_out(x)

\* abs(x)
Abs(x) == IF x < 0 THEN -x ELSE x

\* int(round(d)) of the fixed-point number d: Python rounds halves to even
PyRound(d) ==
    LET q == d \div SpeedScale
        r == d % SpeedScale
    IN  IF 2 * r < SpeedScale THEN q
        ELSE IF 2 * r > SpeedScale THEN q + 1
        ELSE IF q % 2 = 0 THEN q ELSE q + 1

\* the desired velocity of a frame
desired_vel(a, c) ==
    LET d == IF a.mode = "left" THEN a.current_speed
             ELSE IF a.mode = "right" THEN -a.current_speed
             ELSE 0
        d1 == IF d # 0 /\ a.speedup
              THEN (d * c.SPEEDUP_MULTIPLIER[1]) \div c.SPEEDUP_MULTIPLIER[2] ELSE d
        d2 == IF d # 0 /\ a.slowdown
              THEN (d1 * c.SLOWDOWN_MULTIPLIER[1]) \div c.SLOWDOWN_MULTIPLIER[2] ELSE d1
    IN  d2

\* self.vel += (desired - self.vel) * alpha
vel_update(a, c, desired, dt) ==
    LET tc == IF Abs(desired) > Abs(a.vel) THEN c.ACCEL_TIME_S ELSE c.DECEL_TIME_S
        alpha == ease(c, one_minus_exp(dt, tc))
    IN  a.vel + ((desired - a.vel) * alpha[1]) \div alpha[2]

\* what one pass of the movement part of the loop returns
MoveOut(a, cr, w, ran, desired, v) ==
    [a |-> a, carry |-> cr, w |-> w, ran |-> ran, desired |-> desired, v |-> v]

\* _move_loop from the move-delay test to the end of the iteration:
\* cr is carry, t is now, noise the value random.uniform returns
move_step(a, c, cr, dt, t, noise) ==
    IF t < a.move_delay_until THEN MoveOut(a, cr, <<>>, FALSE, 0, a.vel)
    ELSE IF a.mouse_paused THEN MoveOut([a EXCEPT !.vel = 0], cr, <<>>, FALSE, 0, 0)
    ELSE
      LET desired == desired_vel(a, c)
          v == vel_update(a, c, desired, dt)
      IN  IF desired = 0 /\ Abs(v) <= c.DEADZONE_VEL_PX_S
          THEN MoveOut([a EXCEPT !.vel = 0], 0, <<>>, TRUE, desired, v)
          ELSE
            LET d0 == v * dt + cr
                d1 == IF c.HUMANIZE_NOISE /\ c.NOISE_PER_STEP_PX > 0 /\ desired # 0
                      THEN d0 + noise ELSE d0
                delta == clamp(d1, -c.MAX_STEP_PX, c.MAX_STEP_PX)
                step == PyRound(delta)
            IN  MoveOut([a EXCEPT !.vel = v], delta - step * SpeedScale,
                        emit_rel_x(c, step), TRUE, desired, v)

\* the writes of two steps made one after the other
join_out(r1, r2) == Out(r2.a, r1.w \o r2.w)

\* the events read in one iteration, handled in order
RECURSIVE handle_events(_, _, _, _)

\* the events evs handled after the event whose handling returned r1
then_events(r1, c, evs, t) == join_out(r1, handle_events(r1.a, c, evs, t))

handle_events(a, c, evs, t) ==
    IF evs = <<>> THEN Out(a, <<>>)
    ELSE then_events(handle_event(a, c, Head(evs), t), c, Tail(evs), t)

\* what an iteration returns: r1 from the events, m from the movement part
iteration_result(r1, m) ==
    [a |-> m.a, carry |-> m.carry, w |-> r1.w \o m.w, mid |-> r1.a,
     ran |-> m.ran, desired |-> m.desired, v |-> m.v, move_w |-> m.w]

\* the iteration after its events were handled: _space_tick, then the movement
iteration_after_events(r1, c, cr, dt, t, noise) ==
    iteration_result(r1, move_step(space_tick(r1.a, c, t), c, cr,
                                   Max2(dt, c.MIN_FRAME_TIME), t, noise))

\* one iteration of the while loop of _move_loop that is not a sleep:
\* the events evs are read, now = t, dt the time since the last iteration
loop_iteration(a, c, cr, evs, dt, t, noise) ==
    iteration_after_events(handle_events(a, c, evs, t), c, cr, dt, t, noise)

\* the keys down on the virtual keyboard after the writes w
RECURSIVE keys_after(_, _)
keys_after(keys, w) ==
    IF w = <<>> THEN keys
    ELSE LET x == Head(w)
         IN  keys_after(IF x[1] = "vkb" /\ x[2] = EV_KEY
                        THEN (IF x[4] = 0 THEN keys \ {x[3]} ELSE keys \cup {x[3]})
                        ELSE keys,
                        Tail(w))

----------------------------------------------------------------------------
(* Configurations of the model *)

\* the defaults of StraferMacro.load_config, with the three-checkpoint schedule
BaseCfg ==
    [ SCROLL_SPEED_STEP      |-> px(100),
      MIN_SPEED              |-> px(100),
      MAX_SPEED              |-> px(20000),
      SPEED_DEFAULT          |-> px(2000),
      SPEEDUP_MULTIPLIER     |-> <<2, 1>>,
      SLOWDOWN_MULTIPLIER    |-> <<1, 2>>,
      ACCEL_TIME_S           |-> 1,
      DECEL_TIME_S           |-> 1,
      EASING                 |-> "exp_in_out",
      MIN_FRAME_TIME         |-> 1,
      MAX_STEP_PX            |-> px(12),
      DEADZONE_VEL_PX_S      |-> px(1) \div 2,
      HUMANIZE_NOISE         |-> FALSE,
      NOISE_PER_STEP_PX      |-> 0,
      START_MOVE_DELAY_S     |-> 1,
      INVERT_X               |-> FALSE,
      SPACE_MIRROR_TO_GAME   |-> TRUE,
      space_sched            |-> << <<0, px(2500)>>, <<2, px(2200)>>, <<4, px(1800)>> >>,
      space_tick_s           |-> 1,
      space_allow_up         |-> FALSE,
      SPACE_RESTART_ON_PRESS |-> TRUE,
      SPACE_STOP_ON_RELEASE  |-> TRUE,
      key_left               |-> KEY_A,
      key_right              |-> KEY_D,
      key_pause              |-> KEY_ESC,
      key_speed              |-> KEY_LEFTCTRL,
      key_slow               |-> KEY_LEFTSHIFT,
      key_wheel_t            |-> KEY_F9,
      space_key              |-> KEY_SPACE,
      stop_btn               |-> BTN_EXTRA ]

\* the configurations of the ramp: the schedule, the tick interval, the
\* policies, the speed limits and the speed at start
RampConfigs ==
    { \* starting above every target
      [BaseCfg EXCEPT !.SPEED_DEFAULT = px(3000)],
      \* the default speed, below the first two targets; no restart
      [BaseCfg EXCEPT !.SPACE_RESTART_ON_PRESS = FALSE],
      \* increase allowed, a minimum speed of 0
      [BaseCfg EXCEPT !.space_allow_up = TRUE, !.MIN_SPEED = 0,
                      !.SPEED_DEFAULT = px(100), !.SPACE_RESTART_ON_PRESS = FALSE],
      \* first checkpoint later than the press, last target below the minimum,
      \* the ramp goes on after the release
      [BaseCfg EXCEPT !.space_sched = << <<1, px(1600)>>, <<3, px(40)>> >>,
                      !.SPACE_STOP_ON_RELEASE = FALSE],
      \* increase allowed, three ticks in a segment, a target above the maximum
      [BaseCfg EXCEPT !.space_allow_up = TRUE, !.MAX_SPEED = px(3000),
                      !.space_sched = << <<0, px(1000)>>, <<1, px(4000)>>, <<4, px(500)>> >>],
      \* one tick in every segment
      [BaseCfg EXCEPT !.SPEED_DEFAULT = px(3000), !.space_tick_s = 2,
                      !.SPACE_RESTART_ON_PRESS = FALSE],
      \* no schedule
      [BaseCfg EXCEPT !.space_sched = <<>>] }

\* the configurations of the movement: speeds in px per time unit, the
\* easing curve, the time constants, the start delay, the keys
MoveCfg ==
    [BaseCfg EXCEPT !.SPEED_DEFAULT = px(4), !.MIN_SPEED = px(1), !.MAX_SPEED = px(8),
                    !.SCROLL_SPEED_STEP = px(1), !.MAX_STEP_PX = px(12),
                    !.ACCEL_TIME_S = 2, !.DECEL_TIME_S = 1]

MoveConfigs ==
    { MoveCfg,
      [MoveCfg EXCEPT !.EASING = "cubic_in_out", !.ACCEL_TIME_S = 4, !.START_MOVE_DELAY_S = 0],
      [MoveCfg EXCEPT !.EASING = "linear", !.INVERT_X = TRUE, !.DECEL_TIME_S = 4,
                      !.START_MOVE_DELAY_S = 2],
      \* the left direction on another physical key than the key the strafer holds
      [MoveCfg EXCEPT !.key_left = KEY_LEFT, !.EASING = "cubic_in_out", !.ACCEL_TIME_S = 1],
      \* noise
      [MoveCfg EXCEPT !.HUMANIZE_NOISE = TRUE, !.NOISE_PER_STEP_PX = px(1) \div 4],
      \* a minimum speed of 0, one wheel step above it
      [MoveCfg EXCEPT !.MIN_SPEED = 0, !.SPEED_DEFAULT = px(1), !.EASING = "linear",
                      !.START_MOVE_DELAY_S = 0] }

----------------------------------------------------------------------------
(* The loop of the strafer *)

\* no event read in the iteration
NoEvent == Event(-1, 0, 0)

\* the history after an iteration that took a to r, reading the events evs
next_hist(h, a, cr, r, evs) ==
    LET ev == IF evs = <<>> THEN NoEvent ELSE Head(evs)
        mid == r.mid
        started == mid.space_down /\ (~a.space_down \/ mid.space_press_t # a.space_press_t)
    IN  [ ev          |-> ev,
          pre         |-> a,
          mid         |-> mid,
          ran         |-> r.ran,
          desired     |-> r.desired,
          vel_upd     |-> r.v,
          move_w      |-> r.move_w,
          carry_pre   |-> cr,
          act_speed   |-> IF ~a.space_down /\ mid.space_down
                          THEN a.current_speed ELSE h.act_speed,
          start_speed |-> IF started THEN a.current_speed ELSE h.start_speed,
          bumped      |-> IF started THEN FALSE
                          ELSE IF ev.type = EV_REL /\ mid # a THEN TRUE
                          ELSE h.bumped ]

\* the state after an iteration at time t that read evs and returned r
IterateTo(r, t, evs) ==
    /\ sm' = r.a
    /\ carry' = r.carry
    /\ clock' = t
    /\ sink' = [sink EXCEPT !.keys = keys_after(sink.keys, r.w), !.writes = r.w]
    /\ hist' = next_hist(hist, sm, carry, r, evs)

\* one iteration of _move_loop, gap after the previous one, that reads evs
Iterate(evs, gap, noise) ==
    /\ sm.running
    /\ clock + gap <= MaxClock
    /\ IterateTo(loop_iteration(sm, cfg, carry, evs, gap, clock + gap, noise),
                 clock + gap, evs)
    /\ UNCHANGED cfg
    /\ UNCHANGED socdVars
    /\ UNCHANGED auxVars

\* the values random.uniform(-n, n) returns in the model: the two extremes
NoiseValues ==
    IF cfg.HUMANIZE_NOISE /\ cfg.NOISE_PER_STEP_PX > 0
    THEN {-cfg.NOISE_PER_STEP_PX, cfg.NOISE_PER_STEP_PX}
    ELSE {0}

\* an iteration that reads no event
Frame ==
    \E gap \in cfg.MIN_FRAME_TIME..MaxGap, noise \in NoiseValues :
        /\ Iterate(<<>>, gap, noise)
        /\ UNCHANGED inp

\* an iteration that reads the key-down event of key k
Press(k) ==
    \E gap \in cfg.MIN_FRAME_TIME..MaxGap, noise \in NoiseValues :
        /\ k \notin inp
        /\ inp' = inp \cup {k}
        /\ Iterate(<<Event(EV_KEY, k, 1)>>, gap, noise)

\* an iteration that reads an autorepeat event of the held key k
Repeat(k) ==
    \E gap \in cfg.MIN_FRAME_TIME..MaxGap, noise \in NoiseValues :
        /\ k \in inp
        /\ UNCHANGED inp
        /\ Iterate(<<Event(EV_KEY, k, 2)>>, gap, noise)

\* an iteration that reads the key-up event of key k
Release(k) ==
    \E gap \in cfg.MIN_FRAME_TIME..MaxGap, noise \in NoiseValues :
        /\ k \in inp
        /\ inp' = inp \ {k}
        /\ Iterate(<<Event(EV_KEY, k, 0)>>, gap, noise)

\* an iteration that reads a wheel event of the mouse
Wheel(steps) ==
    \E gap \in cfg.MIN_FRAME_TIME..MaxGap, noise \in NoiseValues :
        /\ UNCHANGED inp
        /\ Iterate(<<Event(EV_REL, REL_WHEEL, steps)>>, gap, noise)

\* the strafer after start(), with a configuration of cfgs, the clock reading t0
StraferInit(cfgs, t0) ==
    /\ cfg \in cfgs
    /\ sm = NewStrafer(cfg)
    /\ clock = t0
    /\ inp = {}
    /\ carry = 0
    /\ sink = [keys |-> {}, writes |-> <<>>, vkb_open |-> TRUE, vmouse_open |-> TRUE]
    /\ hist = [ev |-> NoEvent, pre |-> sm, mid |-> sm, ran |-> FALSE, desired |-> 0,
               vel_upd |-> 0, move_w |-> <<>>, carry_pre |-> 0,
               act_speed |-> 0, start_speed |-> 0, bumped |-> FALSE]
    /\ ax = Absent /\ phys = Absent /\ now = Absent /\ vkbd = Absent
    /\ emitted = Absent /\ held_order = Absent /\ last_change_time = Absent
    /\ picked = Absent
    /\ AuxAbsent

\* the strafer with the SPACE key and the wheel in use
InitRamp == StraferInit(RampConfigs, 0)

NextRamp ==
    \/ Frame
    \/ Press(KEY_SPACE)
    \/ Repeat(KEY_SPACE)
    \/ Release(KEY_SPACE)
    \/ \E steps \in {-1, 1} : Wheel(steps)

SpecRamp == InitRamp /\ [][NextRamp]_vars

\* every division of the ramp is exact in the fixed-point model
ExactArithmetic ==
    (sm.seg_target.kind = "num")
        => (sm.seg_start_speed - sm.seg_target.val) % sm.seg_ticks_total = 0

----------------------------------------------------------------------------
(* Properties of the SPACE ramp, checked under SpecRamp *)

\* the fields of the ramp and the speed it drives
RampState(a) ==
    <<a.current_speed, a.space_down, a.space_press_t, a.seg_idx, a.seg_start_t,
      a.seg_end_t, a.seg_start_speed, a.seg_target, a.seg_ticks_total,
      a.seg_tick_idx, a.next_tick_time>>

\* the segment fields as _space_reset leaves them
SegmentCleared(a) ==
    /\ a.seg_idx = -1 /\ a.seg_start_t = 0 /\ a.seg_end_t = 0
    /\ a.seg_start_speed = 0 /\ a.seg_target = NoTarget
    /\ a.seg_ticks_total = 0 /\ a.seg_tick_idx = 0 /\ a.next_tick_time = 0

\* the last iteration read a press or an autorepeat of the SPACE key
SpacePressed == hist.ev.type = EV_KEY /\ hist.ev.code = KEY_SPACE /\ hist.ev.value \in {1, 2}

\* the last iteration read the release of the SPACE key
SpaceReleased == hist.ev.type = EV_KEY /\ hist.ev.code = KEY_SPACE /\ hist.ev.value = 0

\* _space_start ran in the last iteration
RampStarted ==
    /\ SpacePressed
    /\ hist.mid.space_down
    /\ (~hist.pre.space_down \/ hist.mid.space_press_t # hist.pre.space_press_t)

\* the no-increase policy blocks no target of the schedule for a ramp that
\* starts at speed v
NotBlocked(v) ==
    \/ cfg.space_allow_up
    \/ \A j \in DOMAIN cfg.space_sched : cfg.space_sched[j][2] <= v

\* C11: for a schedule whose first checkpoint has offset 0 and whose targets
\* the no-increase policy does not block, the activation sets the speed to the
\* first target, and at the time offset of every later checkpoint of an
\* undisturbed ramp the speed equals that checkpoint's target (within the speed
\* limits)
C11_TargetAtOffset ==
    (Len(cfg.space_sched) > 0 /\ cfg.space_sched[1][1] = 0) =>
        /\ (RampStarted /\ NotBlocked(hist.pre.current_speed))
              => hist.mid.current_speed = clamp_speed(cfg, cfg.space_sched[1][2])
        /\ \A i \in 2..Len(cfg.space_sched) :
              ( /\ sm.space_down
                /\ ~hist.bumped
                /\ NotBlocked(hist.start_speed)
                /\ clock = sm.space_press_t + cfg.space_sched[i][1] )
              => sm.current_speed = clamp_speed(cfg, cfg.space_sched[i][2])

\* C12: with stop-on-release, the release of the SPACE key of an active ramp
\* sets the speed to the value it had just before the press that activated the
\* ramp, and clears the segment state
C12_ReleaseRestores ==
    (SpaceReleased /\ cfg.SPACE_STOP_ON_RELEASE /\ hist.pre.space_down) =>
        /\ sm.current_speed = hist.act_speed
        /\ ~sm.space_down
        /\ SegmentCleared(sm)

SameSegment(a) ==
    /\ a.seg_target.kind = "num"
    /\ a.seg_idx = hist.mid.seg_idx

\* _space_tick found a prepared segment with ticks left in the last iteration
SegmentInProgress ==
    /\ hist.mid.space_down
    /\ hist.mid.seg_target.kind = "num"
    /\ hist.mid.seg_tick_idx < hist.mid.seg_ticks_total

\* s + (g - s) * k / n of the segment _space_tick found, within the speed limits
Interpolated(k) ==
    clamp_speed(cfg, hist.mid.seg_start_speed
                     + ((hist.mid.seg_target.val - hist.mid.seg_start_speed) * k)
                       \div hist.mid.seg_ticks_total)

\* C14: when _space_tick applies ticks of a segment of n ticks from s to g, the
\* speed after the k-th tick is s + (g - s) * k / n within the speed limits,
\* and once the n-th tick is applied the speed is the target within the limits,
\* also when several ticks are applied in one call
C14_LinearTicks ==
    SegmentInProgress =>
        /\ (SameSegment(sm) /\ sm.seg_tick_idx > hist.mid.seg_tick_idx)
              => sm.current_speed = Interpolated(sm.seg_tick_idx)
        /\ (SameSegment(sm) /\ sm.seg_tick_idx = hist.mid.seg_tick_idx)
              => sm.current_speed = hist.mid.current_speed
        /\ ~SameSegment(sm)
              => sm.current_speed = clamp_speed(cfg, hist.mid.seg_target.val)

\* two ticks of a three-tick segment applied in one call
C14_Witness ==
    /\ SegmentInProgress
    /\ SameSegment(sm)
    /\ hist.mid.seg_ticks_total = 3
    /\ sm.seg_tick_idx = hist.mid.seg_tick_idx + 2
    /\ sm.current_speed # hist.mid.current_speed

\* the object a with the ramp as it is before any press
Fresh(a) ==
    [space_reset(a) EXCEPT !.space_down = FALSE, !.space_press_t = 0]

\* C15: with restart-on-press a press of the SPACE key while the ramp is
\* active leaves the ramp as a first press at that time would, with the press
\* timestamp at the new press; without restart-on-press it changes nothing
C15_RestartOnPress ==
    (SpacePressed /\ hist.pre.space_down) =>
        IF cfg.SPACE_RESTART_ON_PRESS
        THEN /\ hist.mid.space_press_t = clock
             /\ RampState(hist.mid)
                    = RampState(space_key_event(Fresh(hist.pre), cfg, 1, clock))
        ELSE hist.mid = hist.pre

\* a press that restarts a ramp which had passed its first checkpoints
C15_Witness ==
    /\ SpacePressed /\ hist.pre.space_down
    /\ cfg.SPACE_RESTART_ON_PRESS
    /\ hist.pre.seg_idx >= 1
    /\ hist.mid.seg_idx <= 0
    /\ hist.mid.space_press_t = clock

\* every checkpoint of the schedule has been consumed
Exhausted(a) ==
    /\ a.space_down
    /\ a.seg_target.kind = "none"
    /\ a.seg_idx + 1 >= Len(cfg.space_sched)

\* C16: once the last checkpoint has been consumed, a call of _space_tick
\* leaves the speed and the state of the ramp unchanged
C16_IdleWhenExhausted ==
    Exhausted(hist.mid) => RampState(sm) = RampState(hist.mid)

\* an iteration of an exhausted ramp, after the ramp lowered the speed
C16_Witness ==
    /\ Exhausted(hist.mid)
    /\ Exhausted(hist.pre)
    /\ hist.ev = NoEvent
    /\ sm.current_speed < hist.start_speed

----------------------------------------------------------------------------
(* The strafer with the direction keys in use, and its shutdown *)

MoveStart == 3        \* clock value at start of the movement runs

\* the keys and buttons pressed in the movement runs
MoveKeys == {KEY_A, KEY_D, KEY_LEFT, KEY_ESC, KEY_LEFTCTRL, BTN_EXTRA}

\* StraferMacro.stop (also run by signal_handler): the loop ends, the virtual
\* devices are closed
StraferStop ==
    /\ sm.running
    /\ sm' = [sm EXCEPT !.running = FALSE]
    /\ sink' = [sink EXCEPT !.writes = <<>>, !.vkb_open = FALSE, !.vmouse_open = FALSE]
    /\ UNCHANGED <<cfg, clock, inp, carry, hist>>
    /\ UNCHANGED socdVars
    /\ UNCHANGED auxVars

InitMove == StraferInit(MoveConfigs, MoveStart)

NextMove ==
    \/ Frame
    \/ \E k \in MoveKeys : Press(k)
    \/ \E k \in MoveKeys : Release(k)
    \/ \E steps \in {-1, 1} : Wheel(steps)
    \/ StraferStop

SpecMove == InitMove /\ [][NextMove]_vars

----------------------------------------------------------------------------
(* Properties of the movement and of the shutdown, checked under SpecMove *)

\* the relative motion the integrator wrote in the last iteration
MotionEmitted == hist.move_w # <<>>

C18_DeadzoneSnap ==
    /\ (hist.ran /\ hist.desired = 0 /\ Abs(hist.vel_upd) <= cfg.DEADZONE_VEL_PX_S)
          => (sm.vel = 0 /\ carry = 0 /\ ~MotionEmitted)
    /\ (hist.mid.mode = NoMode) => ~MotionEmitted

\* a frame with no direction resolved that clears a carry left by a movement
C18_Witness ==
    /\ hist.ran
    /\ hist.mid.mode = NoMode
    /\ hist.carry_pre # 0
    /\ carry = 0

\* a frame with a direction held at speed 0 that snaps a non-zero velocity
DeadzoneSnapReached ==
    /\ hist.ran
    /\ hist.desired = 0
    /\ hist.vel_upd # 0
    /\ Abs(hist.vel_upd) <= cfg.DEADZONE_VEL_PX_S
    /\ sm.vel = 0

\* the strafe direction keys down on the virtual keyboard
DirectionKeysDown == sink.keys \cap {KEY_A, KEY_D}

\* the writes to the virtual keyboard of key events in w
KeyWrites(w) == SelectSeq(w, LAMBDA x : x[1] = "vkb" /\ x[2] = EV_KEY)

\* w starts with the writes p
StartsWith(w, p) == Len(w) >= Len(p) /\ SubSeq(w, 1, Len(p)) = p

\* the last iteration read an event of a configured direction key
DirectionEvent ==
    hist.ev.type = EV_KEY /\ hist.ev.code \in {cfg.key_left, cfg.key_right}

\* the order of the writes of _press_and_hold and _release_hold: the key-up of
\* the previously held key, synced, before the key-down of the new key; nothing
\* for the key already held
HoldWritesInOrder ==
    LET h0 == hist.pre.held_key_code
        h1 == sm.held_key_code
    IN  /\ (h0 # None /\ h1 # None /\ h1 # h0)
              => StartsWith(sink.writes, vk_up(h0) \o vk_down(h1))
        /\ (h0 = None /\ h1 # None) => StartsWith(sink.writes, vk_down(h1))
        /\ (h0 # None /\ h1 = None) => StartsWith(sink.writes, vk_up(h0))
        /\ (DirectionEvent /\ h1 = h0) => KeyWrites(sink.writes) = <<>>

\* at most one direction key is down on the virtual keyboard, and it is
\* held_key_code
OneDirectionKey ==
    DirectionKeysDown = (IF sm.held_key_code = None THEN {} ELSE {sm.held_key_code})

\* C19: the writes of a hold change are in order, and over any event sequence
\* at most one direction key is down on the virtual keyboard, the key
\* held_key_code names
C19_OneDirectionKeyHeld ==
    sink.vkb_open => (HoldWritesInOrder /\ OneDirectionKey)

\* what holds of the held key: the writes of a hold change are in order in
\* every configuration, and the virtual keyboard agrees with held_key_code when
\* the configured physical direction keys are KEY_A and KEY_D
HoldWithDefaultKeys ==
    sink.vkb_open =>
        /\ HoldWritesInOrder
        /\ (cfg.key_left = KEY_A /\ cfg.key_right = KEY_D) => OneDirectionKey

\* C20: when the strafer is shut down, the key it holds down on the virtual
\* keyboard has received its key-up before the keyboard is closed
C20_HeldReleasedBeforeClose ==
    ~sink.vkb_open => (sm.held_key_code = None \/ sm.held_key_code \notin sink.keys)

----------------------------------------------------------------------------
(* The priority mode of the axis engine, checked under Spec *)

\* the key the priority rule names: the first key of the configured priority
\* order that the device holds, else the held key that was pressed last
PriorityWinner ==
    LET hits == {i \in DOMAIN ax.priority : phys[ax.priority[i]]}
    IN  IF hits # {} THEN ax.priority[CHOOSE i \in hits : \A j \in hits : i <= j]
        ELSE held_order[Len(held_order)]

\* C27 (as claimed): in priority mode with no swap-delay, whenever two or more
\* axis keys are held the output is the key the priority rule names.
C27_PriorityAsClaimed ==
    (ax.mode = "priority" /\ ax.swap_delay = 0 /\ Len(held_order) >= 2)
        => (ax.out = Only(PriorityWinner))

\* C27 (amended): in priority mode with no swap-delay and no neutral-timeout,
\* whenever two or more axis keys are held the output is the first key of the
\* priority order that is held, and the most recently pressed held key when no
\* held key is in the priority list.
C27_PriorityAmended ==
    (ax.mode = "priority" /\ PlainAxis /\ Len(held_order) >= 2)
        => (ax.out = Only(PriorityWinner))

\* C27 witness: a priority list is configured, two keys are held, the key
\* pressed last is not the output because an earlier-pressed key comes first
\* in the priority order.
C27_Witness ==
    /\ ax.mode = "priority" /\ PlainAxis
    /\ ax.priority # <<>>
    /\ Len(held_order) >= 2
    /\ ~ax.out[held_order[Len(held_order)]]
    /\ ax.out = Only(PriorityWinner)

----------------------------------------------------------------------------
(* The direction of the strafer under left/right key events only *)

\* the physical direction keys of the configuration
DirKeys == {cfg.key_left, cfg.key_right}

\* the direction a physical direction key stands for
DirOf(k) == IF k = cfg.key_left THEN "left" ELSE "right"

NextDir ==
    \/ Frame
    \/ \E k \in DirKeys : Press(k)
    \/ \E k \in DirKeys : Repeat(k)
    \/ \E k \in DirKeys : Release(k)

\* the strafer reading nothing but events of its two direction keys
SpecDir == InitMove /\ [][NextDir]_vars

\* C28: a press of a direction key makes its direction the resolved one,
\* whether or not the other key is held; a release leaves the direction of the
\* other key if that key is still held and none otherwise; iterations without
\* a press or release keep the direction.  Hence the direction is always that
\* of the most recently pressed direction key still held.
C28_LastPressedHeldWins ==
    [][/\ \A k \in DirKeys : (k \notin inp /\ k \in inp') => (sm'.mode = DirOf(k))
       /\ \A k \in DirKeys :
             (k \in inp /\ k \notin inp') =>
                 (sm'.mode = IF \E o \in DirKeys : o \in inp'
                             THEN DirOf(CHOOSE o \in DirKeys : o \in inp')
                             ELSE NoMode)
       /\ (inp' = inp) => (sm'.mode = sm.mode)]_vars

\* C28 witness: with both direction keys held the winner was released, and the
\* direction went to the other, still-held key with no new press.
C28_Witness ==
    /\ hist.ev.type = EV_KEY /\ hist.ev.value = 0
    /\ hist.ev.code \in DirKeys
    /\ hist.pre.a_down /\ hist.pre.d_down
    /\ hist.pre.mode = DirOf(hist.ev.code)
    /\ Cardinality(inp) = 1
    /\ sm.mode \in {"left", "right"}
    /\ sm.mode # hist.pre.mode

----------------------------------------------------------------------------
(* The pause key and the stop button, checked under SpecMove *)

\* the step is a loop iteration (the clock is read in every iteration)
IsIteration == clock' # clock

\* the strafer is neutral: both direction flags clear, no direction, no
\* virtual key held, velocity 0
Neutral(a) ==
    /\ ~a.a_down /\ ~a.d_down
    /\ a.mode = NoMode
    /\ a.held_key_code = None
    /\ a.vel = 0

\* the event is the key-down of a direction key
DirectionKeyDown(ev) ==
    ev.type = EV_KEY /\ ev.value = 1 /\ ev.code \in {cfg.key_left, cfg.key_right}

\* the event is the key-down of the pause key
PauseKeyDown(ev) ==
    ev.type = EV_KEY /\ ev.value = 1 /\ ev.code = cfg.key_pause

\* a virtual direction key is down only as the pass-through of a physical key
\* that is not a direction key of the configuration
NoVirtualDirectionHeld ==
    \A k \in {KEY_A, KEY_D} :
        k \in sink.keys => (k \notin {cfg.key_left, cfg.key_right} /\ k \in inp)

\* C29: an iteration that reads a pause-key down leaves the strafer neutral,
\* has written the key-up of the virtual key that was held and moves nothing;
\* from a neutral strafer every iteration that reads no direction key-down
\* leaves it neutral and moves nothing, whatever physical keys are still held.
C29_PauseNeutral ==
    [][IsIteration =>
         /\ PauseKeyDown(hist'.ev) =>
               /\ Neutral(sm') /\ hist'.move_w = <<>>
               /\ NoVirtualDirectionHeld'
               /\ (sm.held_key_code # None) =>
                      StartsWith(sink'.writes, vk_up(sm.held_key_code))
         /\ (Neutral(sm) /\ NoVirtualDirectionHeld /\ ~DirectionKeyDown(hist'.ev)) =>
               /\ Neutral(sm') /\ hist'.move_w = <<>>
               /\ NoVirtualDirectionHeld']_vars

\* C29 witness: a direction key is still physically held after a pause-key
\* press took its direction away, and a later frame in which the movement part
\* of the loop ran moved nothing.
C29_Witness ==
    /\ cfg.key_left \in inp /\ ~sm.a_down
    /\ Neutral(sm)
    /\ hist.ev = NoEvent /\ hist.ran
    /\ hist.move_w = <<>>
    /\ sink.keys \cap {KEY_A, KEY_D} = {}

\* the writes w forward an event of the stop button to a virtual device
ForwardsStopButton(w) ==
    \E i \in DOMAIN w : Len(w[i]) = 4 /\ w[i][2] = EV_KEY /\ w[i][3] = cfg.stop_btn

\* C30: while the stop button is held on the input device, the velocity is 0
\* and the last loop iteration wrote no pointer motion; no iteration forwards
\* a stop-button event to a virtual device.
C30_StopButtonHolds ==
    /\ (cfg.stop_btn \in inp) => (sm.vel = 0 /\ hist.move_w = <<>>)
    /\ ~ForwardsStopButton(sink.writes)

\* C30 witness: the stop button is held while a direction is active, and a
\* frame past the start delay read no event and moved nothing.
C30_Witness ==
    /\ cfg.stop_btn \in inp
    /\ sm.mode \in {"left", "right"}
    /\ hist.ev = NoEvent
    /\ clock >= sm.move_delay_until
    /\ sm.vel = 0 /\ hist.move_w = <<>>

----------------------------------------------------------------------------
(* Part 3: start-up of the SOCD cleaner (SOCDCleaner.start): the axis      *)
(* groups of the AXES configuration become Axis objects.                   *)

MaxAxes == 2          \* most axis groups in the AXES configuration

KEY_W == 17
KEY_S == 31

\* SOCDCleaner.key_to_code for the key names of the model: a letter and the
\* KEY_ name of a key give the same code, an unknown name gives None
KeyCodeOf ==
    ("a" :> KEY_A) @@ ("KEY_A" :> KEY_A) @@ ("d" :> KEY_D) @@
    ("w" :> KEY_W) @@ ("s" :> KEY_S) @@ ("KEY_BOGUS" :> None)

key_to_code(k) == KeyCodeOf[k]

\* the warning of codes_from_list and its message for an unknown key
WarnTooFewKeys == "Warning: Axis needs at least 2 keys."
UnknownKey(x) == <<"Unknown key in config", x>>

\* the loop of codes_from_list: the codes of the known keys and the messages
\* printed for the unknown ones
RECURSIVE codes_loop(_)
codes_loop(lst) ==
    IF lst = <<>> THEN [out |-> <<>>, log |-> <<>>]
    ELSE LET c == key_to_code(Head(lst))
             r == codes_loop(Tail(lst))
         IN  IF c = None THEN [out |-> r.out, log |-> <<UnknownKey(Head(lst))>> \o r.log]
             ELSE [out |-> <<c>> \o r.out, log |-> r.log]

\* SOCDCleaner.codes_from_list
codes_from_list(lst) ==
    LET r == codes_loop(lst)
    IN  IF Len(r.out) < 2
        THEN [out |-> <<>>, log |-> Append(r.log, WarnTooFewKeys)]
        ELSE r

\* the mode start() gives an axis
axis_mode(m) == IF m \notin AVAILABLE_MODES THEN "recent" ELSE m

\* the Axis object start() creates for group number g: its name, keys and
\* mode, and self.down, which has one entry per distinct key
StartAxis(g, group, keys) ==
    [group |-> g, name |-> group.name, keys |-> keys, mode |-> axis_mode(group.mode),
     down |-> {keys[i] : i \in DOMAIN keys}]

\* self.bykey after the axis with index ix was registered for keys
RECURSIVE register(_, _, _)
register(bykey, keys, ix) ==
    IF keys = <<>> THEN bykey
    ELSE LET k == Head(keys)
             cur == IF k \in DOMAIN bykey THEN bykey[k] ELSE <<>>
         IN  register((k :> Append(cur, ix)) @@ bykey, Tail(keys), ix)

\* the loop "for ax in self.cfg['AXES']" of start(), from group number g on
RECURSIVE setup_axes(_, _, _)
setup_axes(s, groups, g) ==
    IF g > Len(groups) THEN s
    ELSE LET r == codes_from_list(groups[g].keys)
             logged == [s EXCEPT !.log = s.log \o [i \in DOMAIN r.log |-> <<g, r.log[i]>>]]
         IN  IF r.out = <<>> THEN setup_axes(logged, groups, g + 1)
             ELSE setup_axes([logged EXCEPT
                                 !.axes = Append(s.axes, StartAxis(g, groups[g], r.out)),
                                 !.bykey = register(s.bykey, r.out, Len(s.axes) + 1)],
                             groups, g + 1)

\* the key lists of the axis groups of the model
KeyLists ==
    { <<>>, <<"a">>, <<"KEY_BOGUS">>, <<"a", "KEY_BOGUS">>, <<"a", "a">>,
      <<"a", "KEY_A">>, <<"a", "d">>, <<"w", "s">>, <<"d", "a", "KEY_BOGUS">>,
      <<"w", "a", "w">> }

\* the axis groups of the model
AxisGroups ==
    [name : {"axis"}, keys : KeyLists, mode : {"recent", "sticky", "diagonal"}]

\* the AXES configurations of the model
AxesConfigs == UNION {[1..n -> AxisGroups] : n \in 1..MaxAxes}

\* the cleaner after __init__ and load_config, with the AXES configuration
InitStart ==
    /\ \E groups \in AxesConfigs :
          su = [AXES |-> groups, phase |-> "configured", axes |-> <<>>,
                bykey |-> <<>>, log |-> <<>>]
    /\ SocdAbsent /\ StraferAbsent
    /\ ac = Absent /\ poll = Absent /\ store = Absent /\ LateAbsent

\* SOCDCleaner.start up to the creation of the axes
StartAxes ==
    /\ su.phase = "configured"
    /\ su' = [setup_axes(su, su.AXES, 1) EXCEPT !.phase = "axes"]
    /\ UNCHANGED <<socdVars, straferVars, ac, poll, store, lateVars>>

NextStart == StartAxes

SpecStart == InitStart /\ [][NextStart]_vars

\* the distinct key codes the key list of group g resolves to
DistinctCodes(g) ==
    {KeyCodeOf[su.AXES[g].keys[i]] : i \in DOMAIN su.AXES[g].keys} \ {None}

\* group g was registered as a resolver
Registered(g) == \E i \in DOMAIN su.axes : su.axes[i].group = g

\* the keys of group g are handled by an axis made for it
ResolvesKeys(g) ==
    \E i \in DOMAIN su.axes :
        /\ su.axes[i].group = g
        /\ su.axes[i].down = DistinctCodes(g)
        /\ \A k \in DistinctCodes(g) :
              k \in DOMAIN su.bykey /\ \E j \in DOMAIN su.bykey[k] : su.bykey[k][j] = i

\* C26 (as claimed): after start() has set up the axes, a group whose key list
\* resolves to fewer than 2 distinct key codes has no axis and its warning was
\* logged, and every other group has an axis that resolves its keys (the loop
\* over groups that have a key list raises nothing, so start() goes on).
C26_MalformedGroupDisabled ==
    (su.phase = "axes") =>
        \A g \in DOMAIN su.AXES :
            IF Cardinality(DistinctCodes(g)) < 2
            THEN /\ ~Registered(g)
                 /\ \E i \in DOMAIN su.log : su.log[i] = <<g, WarnTooFewKeys>>
            ELSE ResolvesKeys(g)

----------------------------------------------------------------------------
(* Part 4: the autoclicker (src/macros/autoclicker.py).  The main thread    *)
(* runs run_event_loop, the click thread runs click_loop; a step of the     *)
(* click thread is one statement that reads or writes shared state or       *)
(* sleeps.  Time is counted in sleeps of 1 ms of the click thread.          *)

ClickInterval == 2    \* self.interval in sleeps of the click thread

\* the AutoClicker after start() has opened the devices and started the thread
NewClicker ==
    [ running    |-> TRUE,      \* self.running
      active     |-> FALSE,     \* self.active (threading.Event)
      ui_open    |-> TRUE,      \* self.ui is open
      mouse_open |-> TRUE,      \* self.mouse is open
      btn        |-> FALSE,     \* the target button on the virtual device
      trig       |-> FALSE,     \* the trigger button on the input device
      main       |-> "loop",    \* main thread: loop, join (in stop), exited
      w          |-> "top",     \* click thread: top, check, idle, timed, wait,
                                \*   down, hold, up, done
      wait       |-> 0,         \* sleeps until now >= next_time
      saw_active |-> FALSE,     \* history: active.is_set() at the last wake-up
      released   |-> FALSE,     \* history: the last trigger event read was a release
      write_failed |-> FALSE ]  \* history: a write of the click thread raised

InitClick ==
    /\ ac = NewClicker
    /\ SocdAbsent /\ StraferAbsent
    /\ su = Absent /\ poll = Absent /\ store = Absent /\ LateAbsent

\* an action of the autoclicker changes nothing but ac
ClickFrame == UNCHANGED <<socdVars, straferVars, su, poll, store, lateVars>>

\* run_event_loop reads an event of the trigger button: value 1 sets the
\* flag, value 0 clears it
TriggerEvent(value) ==
    /\ ac.main = "loop" /\ ac.running
    /\ ac.trig = (value = 0)
    /\ ac' = [ac EXCEPT !.trig = (value = 1), !.active = (value = 1),
                         !.released = (value = 0)]
    /\ ClickFrame

\* self.mouse.read() raises OSError: the loop breaks, start() and main()
\* return and the process ends, its daemon thread with it
Disconnect ==
    /\ ac.main = "loop" /\ ac.running
    /\ ac' = [ac EXCEPT !.main = "exited", !.w = "done"]
    /\ ClickFrame

\* signal_handler: stop() up to the join of the click thread
Signal ==
    /\ ac.main = "loop"
    /\ ac' = [ac EXCEPT !.running = FALSE, !.active = FALSE, !.main = "join"]
    /\ ClickFrame

\* stop() after the click thread has ended: the devices are closed, then
\* sys.exit(0)
StopClose ==
    /\ ac.main = "join" /\ ac.w = "done"
    /\ ac' = [ac EXCEPT !.ui_open = FALSE, !.mouse_open = FALSE, !.main = "exited"]
    /\ ClickFrame

\* click_loop, "while self.running"
WorkerTop ==
    /\ ac.main # "exited" /\ ac.w = "top"
    /\ ac' = [ac EXCEPT !.w = IF ac.running THEN "check" ELSE "done"]
    /\ ClickFrame

\* click_loop, "if not self.active.is_set()"
WorkerCheck ==
    /\ ac.main # "exited" /\ ac.w = "check"
    /\ ac' = [ac EXCEPT !.w = IF ac.active THEN "timed" ELSE "idle",
                         !.saw_active = ac.active]
    /\ ClickFrame

\* click_loop, the sleep of 50 ms and next_time = time.perf_counter()
WorkerIdle ==
    /\ ac.main # "exited" /\ ac.w = "idle"
    /\ ac' = [ac EXCEPT !.w = "top", !.wait = 0]
    /\ ClickFrame

\* click_loop, "if now >= next_time"
WorkerTimed ==
    /\ ac.main # "exited" /\ ac.w = "timed"
    /\ ac' = [ac EXCEPT !.w = IF ac.wait = 0 THEN "down" ELSE "wait"]
    /\ ClickFrame

\* click_loop, the sleep of 1 ms
WorkerWait ==
    /\ ac.main # "exited" /\ ac.w = "wait"
    /\ ac' = [ac EXCEPT !.w = "top", !.wait = ac.wait - 1]
    /\ ClickFrame

\* the except branch of click_loop: the message, then break
click_error(a) == [a EXCEPT !.w = "done", !.write_failed = TRUE]

\* click_loop, the write of the button-down; ok = the write does not raise
WorkerDown(ok) ==
    /\ ac.main # "exited" /\ ac.w = "down"
    /\ ac' = IF ok /\ ac.ui_open THEN [ac EXCEPT !.w = "hold", !.btn = TRUE]
              ELSE click_error(ac)
    /\ ClickFrame

\* click_loop, the sleep of click_duration
WorkerHold ==
    /\ ac.main # "exited" /\ ac.w = "hold"
    /\ ac' = [ac EXCEPT !.w = "up"]
    /\ ClickFrame

\* click_loop, the write of the button-up and next_time = now + interval
WorkerUp(ok) ==
    /\ ac.main # "exited" /\ ac.w = "up"
    /\ ac' = IF ok /\ ac.ui_open
              THEN [ac EXCEPT !.w = "top", !.btn = FALSE, !.wait = ClickInterval]
              ELSE click_error(ac)
    /\ ClickFrame

NextClick ==
    \/ \E value \in {0, 1} : TriggerEvent(value)
    \/ Disconnect
    \/ Signal
    \/ StopClose
    \/ WorkerTop
    \/ WorkerCheck
    \/ WorkerIdle
    \/ WorkerTimed
    \/ WorkerWait
    \/ \E ok \in BOOLEAN : WorkerDown(ok)
    \/ WorkerHold
    \/ \E ok \in BOOLEAN : WorkerUp(ok)

SpecClick == InitClick /\ [][NextClick]_vars

\* a click begins: the button-down of the target button is written
ClickBegins == ~ac.btn /\ ac'.btn

\* C24 (as claimed): a click begins only on a wake-up at which the click
\* thread saw the active flag set, and, once the event loop has processed a
\* trigger release, no click begins before the next trigger press.
C24_NoClickAfterRelease ==
    [][ClickBegins => (ac.saw_active /\ ~ac.released)]_vars

\* C21 (as claimed): whenever the control loop of the autoclicker has ended
\* and the program is gone, the release sequence has run: the virtual device
\* and the input device were closed by stop().
C21_ReleaseOnEveryExit ==
    ac.main = "exited" => (~ac.ui_open /\ ~ac.mouse_open)

\* C23 (as claimed): after a write of the click thread to the virtual device
\* has failed, and while the autoclicker is still running, the click thread
\* is still alive to produce later clicks.
C23_WorkerSurvivesWriteFailure ==
    (ac.write_failed /\ ac.running /\ ac.main = "loop") => ac.w # "done"

----------------------------------------------------------------------------
(* Part 5: the polled input sources.  SOCDCleaner.loop (src/macros/socd.py) *)
(* selects over self.fds, StraferMacro._move_loop (src/macros/strafer.py)   *)
(* reads every device of self.input_devices each frame, and                 *)
(* DahoodScrollMacro.listen (src/macros/dahood_macro.py) selects over the   *)
(* keys of self.devices.                                                    *)

NumSources == 2       \* input devices opened at start-up
MaxServed  == 2       \* reads with events counted per source

Sources == 1..NumSources
PollMacros == {"socd", "strafer", "dahood"}

\* the polled set after the read of source d has raised: the except clause
\* of the SOCD cleaner and of the strafer prints a message, the one of the
\* Dahood macro calls _drop_device(fd)
on_read_error(macro, fds, d) ==
    IF macro = "dahood" THEN fds \ {d} ELSE fds

InitPoll ==
    /\ \E m \in PollMacros :
          poll = [ macro  |-> m,
                   fds    |-> Sources,             \* the polled sources
                   gone   |-> {},                  \* devices that were unplugged
                   failed |-> {},                  \* history: sources whose read raised
                   reread |-> {},                  \* history: sources read after that
                   served |-> [d \in Sources |-> 0] ]  \* history: reads with events
    /\ SocdAbsent /\ StraferAbsent
    /\ su = Absent /\ ac = Absent /\ store = Absent /\ LateAbsent

PollFrame == UNCHANGED <<socdVars, straferVars, su, ac, store, lateVars>>

\* the device of a polled source disappears
Unplug(d) ==
    /\ d \in poll.fds \ poll.gone
    /\ poll' = [poll EXCEPT !.gone = @ \cup {d}]
    /\ PollFrame

\* one read of source d by the loop: dev.read() / device.read_one()
ReadSource(d) ==
    /\ d \in poll.fds
    /\ IF d \in poll.gone
       THEN poll' = [poll EXCEPT
                       !.fds = on_read_error(poll.macro, poll.fds, d),
                       !.failed = @ \cup {d},
                       !.reread = IF d \in poll.failed THEN @ \cup {d} ELSE @]
       ELSE /\ poll.served[d] < MaxServed
            /\ poll' = [poll EXCEPT !.served[d] = @ + 1]
    /\ PollFrame

NextPoll ==
    \/ \E d \in Sources : Unplug(d)
    \/ \E d \in Sources : ReadSource(d)

SpecPoll == InitPoll /\ [][NextPoll]_vars

\* C22 (as claimed): a source whose read has failed is no longer in the set
\* of polled sources and is not read again.
C22_FailedSourceDropped ==
    (poll.failed \cap poll.fds = {}) /\ poll.reread = {}

----------------------------------------------------------------------------
(* Part 6: saving and loading the strafer's configuration, by the macro     *)
(* itself (src/macros/strafer.py) and through the configuration tab of the  *)
(* manager (src/macro_manager.py).  A Python value is a record with its     *)
(* type t and one used field: b for bool, n for float, s for str (a text),  *)
(* l for a list of [time, speed] pairs.  A text is a word or a numeral.     *)

MaxSpeedChoice == 2   \* base speeds that a configuration is drawn from

Word(w)    == [k |-> "word", w |-> w, n |-> 0]
Numeral(n) == [k |-> "numeral", w |-> "", n |-> n]

PyBool(b)  == [t |-> "bool",  b |-> b,     n |-> 0, s |-> Word(""), l |-> <<>>]
PyFloat(n) == [t |-> "float", b |-> FALSE, n |-> n, s |-> Word(""), l |-> <<>>]
PyStr(x)   == [t |-> "str",   b |-> FALSE, n |-> 0, s |-> x,        l |-> <<>>]
PyList(l)  == [t |-> "list",  b |-> FALSE, n |-> 0, s |-> Word(""), l |-> l]

\* str(v), as the configuration tab shows a value in an entry or a dropdown
py_str(v) ==
    CASE v.t = "bool"  -> Word(IF v.b THEN "True" ELSE "False")
      [] v.t = "float" -> Numeral(v.n)
      [] OTHER         -> v.s

\* the truth value Python gives a configuration value in a condition
truthy(v) ==
    CASE v.t = "bool"  -> v.b
      [] v.t = "float" -> v.n # 0
      [] v.t = "str"   -> v.s # Word("")
      [] OTHER         -> v.l # <<>>

\* float(v) of a number or of a numeral string; None where Python raises
py_float(v) ==
    CASE v.t = "float" -> v.n
      [] v.t = "str" /\ v.s.k = "numeral" -> v.s.n
      [] OTHER -> None

\* json.dump of one value: the token written to the file
json_dump(v) ==
    CASE v.t = "bool"  -> [j |-> "literal", w |-> IF v.b THEN "true" ELSE "false",
                           n |-> 0, s |-> Word(""), l |-> <<>>]
      [] v.t = "float" -> [j |-> "number", w |-> "", n |-> v.n, s |-> Word(""), l |-> <<>>]
      [] v.t = "str"   -> [j |-> "string", w |-> "", n |-> 0, s |-> v.s, l |-> <<>>]
      [] OTHER         -> [j |-> "array", w |-> "", n |-> 0, s |-> Word(""), l |-> v.l]

\* json.load of one token
json_load(x) ==
    CASE x.j = "literal" -> PyBool(x.w = "true")
      [] x.j = "number"  -> PyFloat(x.n)
      [] x.j = "string"  -> PyStr(x.s)
      [] OTHER           -> PyList(x.l)

CfgKeys == {"INVERT_X", "SPACE_ALLOW_INCREASE", "SPACE_RESTART_ON_PRESS",
            "SPACE_STOP_ON_RELEASE", "SPEED_PX_PER_SEC_DEFAULT",
            "SPACE_TIMED_SPEED_SCHEDULE"}

\* the fields of the tab that save_config converts with float()
number_fields == {"SPEED_PX_PER_SEC_DEFAULT"}

\* json.dump / json.load of a configuration dictionary
dump_cfg(c) == [key \in CfgKeys |-> json_dump(c[key])]
load_cfg(f) == [key \in CfgKeys |-> json_load(f[key])]

\* list.sort(key=lambda x: x[0]): a stable insertion sort by the time
RECURSIVE insert_by_time(_, _)
insert_by_time(l, x) ==
    IF l = <<>> THEN <<x>>
    ELSE IF x[1] < Head(l)[1] THEN <<x>> \o l
    ELSE <<Head(l)>> \o insert_by_time(Tail(l), x)

RECURSIVE sort_by_time(_)
sort_by_time(l) ==
    IF l = <<>> THEN <<>>
    ELSE insert_by_time(sort_by_time(SubSeq(l, 1, Len(l) - 1)), l[Len(l)])

\* StraferMacro.save_config: the file written from self.cfg
strafer_save_config(c) == dump_cfg(c)

\* StraferMacro.load_config: self.cfg.update(json.load(f))
strafer_load_config(f) == load_cfg(f)

\* the text box of the schedule: one line "time, speed" per pair
schedule_text(l) == [i \in DOMAIN l |-> <<Numeral(l[i][1]), Numeral(l[i][2])>>]

\* save_config of the tab on the schedule text: float() of both parts of a
\* line, then the sort by time
parse_schedule(lines) == sort_by_time([i \in DOMAIN lines |-> <<lines[i][1].n, lines[i][2].n>>])

\* the entry of a field as create_config_fields fills it from macro_data
tab_entry(key, v) == IF key = "SPACE_TIMED_SPEED_SCHEDULE" THEN v ELSE PyStr(py_str(v))

\* save_config of the tab for one entry: the schedule is parsed, a number
\* field is converted with float() when that does not raise, any other
\* value is stored as the string the widget returns
tab_save_entry(key, entry) ==
    IF key = "SPACE_TIMED_SPEED_SCHEDULE" THEN PyList(parse_schedule(schedule_text(entry.l)))
    ELSE IF key \in number_fields /\ entry.s # Word("") /\ py_float(entry) # None
         THEN PyFloat(py_float(entry))
         ELSE entry

\* ConfigTab: load_macro_config, the entries, save_config, save_macro_config
tab_save_config(f) ==
    dump_cfg([key \in CfgKeys |-> tab_save_entry(key, tab_entry(key, load_cfg(f)[key]))])

\* what StraferMacro.__init__ and the loop read of a configuration: the
\* fields of the configuration record of Part 2
strafer_reads(c) ==
    [ INVERT_X               |-> truthy(c["INVERT_X"]),
      space_allow_up         |-> truthy(c["SPACE_ALLOW_INCREASE"]),
      SPACE_RESTART_ON_PRESS |-> truthy(c["SPACE_RESTART_ON_PRESS"]),
      SPACE_STOP_ON_RELEASE  |-> truthy(c["SPACE_STOP_ON_RELEASE"]),
      SPEED_DEFAULT          |-> py_float(c["SPEED_PX_PER_SEC_DEFAULT"]),
      space_sched            |-> sort_by_time(c["SPACE_TIMED_SPEED_SCHEDULE"].l) ]

SpeedChoices == {1000 * i : i \in 1..MaxSpeedChoice}
ScheduleChoices == { << <<0, 2500>>, <<2, 2200>> >>, << <<2, 2200>>, <<0, 2500>> >>, <<>> }

\* the configurations a strafer can hold
StraferCfgs ==
    { [key \in CfgKeys |->
         CASE key = "SPEED_PX_PER_SEC_DEFAULT"   -> PyFloat(sp)
           [] key = "SPACE_TIMED_SPEED_SCHEDULE" -> PyList(sc)
           [] OTHER                              -> PyBool(key \in flags)]
      : flags \in SUBSET (CfgKeys \ {"SPEED_PX_PER_SEC_DEFAULT", "SPACE_TIMED_SPEED_SCHEDULE"}),
        sp \in SpeedChoices, sc \in ScheduleChoices }

InitStore ==
    /\ \E c \in StraferCfgs :
          store = [ cfg    |-> c,              \* self.cfg of the running macro
                    phase  |-> "fresh",        \* fresh, saved, loaded
                    via    |-> "none",         \* who wrote the file last: own, tab
                    file   |-> dump_cfg(c),    \* the configuration file (once saved)
                    loaded |-> c ]             \* self.cfg of the restarted macro (once loaded)
    /\ SocdAbsent /\ StraferAbsent
    /\ su = Absent /\ ac = Absent /\ poll = Absent /\ LateAbsent

StoreFrame == UNCHANGED <<socdVars, straferVars, su, ac, poll, lateVars>>

\* the macro saves its configuration
SaveOwn ==
    /\ store.phase = "fresh"
    /\ store' = [store EXCEPT !.file = strafer_save_config(store.cfg),
                              !.phase = "saved", !.via = "own"]
    /\ StoreFrame

\* the configuration tab is opened on the saved file and Save is pressed
SaveInTab ==
    /\ store.phase = "saved" /\ store.via = "own"
    /\ store' = [store EXCEPT !.file = tab_save_config(store.file), !.via = "tab"]
    /\ StoreFrame

\* a new StraferMacro loads the file
LoadSaved ==
    /\ store.phase = "saved"
    /\ store' = [store EXCEPT !.loaded = strafer_load_config(store.file),
                              !.phase = "loaded"]
    /\ StoreFrame

NextStore == SaveOwn \/ SaveInTab \/ LoadSaved

SpecStore == InitStore /\ [][NextStore]_vars

\* C25 (as claimed): a configuration that was saved, by the macro or through
\* the configuration tab, and loaded again makes the strafer read the same
\* flags, base speed and schedule as the original and write the same motion
\* for every step.
C25_RoundTrip ==
    store.phase = "loaded" =>
        /\ strafer_reads(store.loaded) = strafer_reads(store.cfg)
        /\ \A dx \in {-1, 1} :
              emit_rel_x(strafer_reads(store.loaded), dx)
                  = emit_rel_x(strafer_reads(store.cfg), dx)

----------------------------------------------------------------------------
(* Part 7: two axes of the SOCD cleaner, one in first mode and one in       *)
(* invert mode, with the same keys, swap-delay and neutral-timeout, fed the *)
(* same key events at the same clock values (src/macros/socd.py).           *)

\* the axis after the loop body for one key event: on_key, pick, emit changes
axis_step(a, code, is_down, t) ==
    emit_changes(pick(on_key(a, code, is_down, t), t).ax,
                 pick(on_key(a, code, is_down, t), t).ret).ax

InitTwin ==
    /\ \E sd \in {0, SwapDelay}, tn \in {0, TimeoutNeutral} :
          twin = [ first  |-> NewAxis("first", <<>>, sd, tn),
                   invert |-> NewAxis("invert", <<>>, sd, tn),
                   phys   |-> AllFalse,      \* key state of the input device
                   now    |-> StartTime,     \* time.monotonic()
                   events |-> 0 ]            \* history: key events processed
    /\ SocdAbsent /\ StraferAbsent /\ EarlyAbsent
    /\ cl = Absent /\ scroll = Absent /\ hop = Absent /\ boot = Absent /\ mgr = Absent

TwinFrame == UNCHANGED <<socdVars, straferVars, earlyVars, cl, scroll, hop, boot, mgr>>

\* the device reports key k going down (is_down) or up at the next clock value
TwinKey(k, is_down) ==
    /\ twin.now < MaxTime
    /\ twin.phys[k] = ~is_down
    /\ twin' = [ first  |-> axis_step(twin.first, k, is_down, twin.now + 1),
                 invert |-> axis_step(twin.invert, k, is_down, twin.now + 1),
                 phys   |-> [twin.phys EXCEPT ![k] = is_down],
                 now    |-> twin.now + 1,
                 events |-> twin.events + 1 ]
    /\ TwinFrame

\* select() times out with nothing to read
TwinIdle ==
    /\ twin.now < MaxTime
    /\ twin' = [twin EXCEPT !.now = @ + 1]
    /\ TwinFrame

NextTwin ==
    \/ \E k \in Keys, is_down \in BOOLEAN : TwinKey(k, is_down)
    \/ TwinIdle

SpecTwin == InitTwin /\ [][NextTwin]_vars

\* C31 (as claimed): with the same keys, swap-delay and neutral-timeout and
\* the same timed events, the axis in first mode and the axis in invert mode
\* have the same output map after every event.
C31_FirstEqualsInvert == twin.first.out = twin.invert.out

\* C32 (as claimed): in every mode except toggle, after every processed key
\* event each key with out = true is currently held (down = true).
C32_OutIsHeld ==
    (ax.mode # "toggle") => \A k \in Keys : ax.out[k] => ax.down[k]

\* C40: when the configured default speed lies within [MIN_SPEED_PX_PER_SEC,
\* MAX_SPEED_PX_PER_SEC], the current speed lies within these limits in every
\* reachable state of the strafer, whatever wheel bumps, ramp activations,
\* ramp ticks, restarts and releases have happened.
C40_SpeedWithinLimits ==
    (cfg.MIN_SPEED <= cfg.SPEED_DEFAULT /\ cfg.SPEED_DEFAULT <= cfg.MAX_SPEED) =>
        (cfg.MIN_SPEED <= sm.current_speed /\ sm.current_speed <= cfg.MAX_SPEED)

\* C40 witness: a ramp whose schedule has a target above the maximum speed is
\* active and has brought the current speed to the maximum.
C40_Witness ==
    /\ cfg.MIN_SPEED <= cfg.SPEED_DEFAULT /\ cfg.SPEED_DEFAULT <= cfg.MAX_SPEED
    /\ sm.space_down
    /\ \E j \in DOMAIN cfg.space_sched : cfg.space_sched[j][2] > cfg.MAX_SPEED
    /\ sm.current_speed = cfg.MAX_SPEED

----------------------------------------------------------------------------
(* The ramp with the trigger held: the first iteration reads the press of   *)
(* the trigger, no release and no wheel step follows, and the loop iterates *)
(* until the clock of the model stops.                                      *)

\* the speed at the end of the ramp when it starts at speed s with checkpoint
\* j: a checkpoint is skipped when increases are not allowed and its target
\* is not below the speed, every other target is taken, within the limits
RECURSIVE ramp_end(_, _, _)
ramp_end(c, s, j) ==
    IF j > Len(c.space_sched) THEN s
    ELSE ramp_end(c,
                  IF c.space_allow_up \/ c.space_sched[j][2] < s
                  THEN clamp_speed(c, c.space_sched[j][2]) ELSE s,
                  j + 1)

NextRampHeld ==
    \/ KEY_SPACE \notin inp /\ Press(KEY_SPACE)
    \/ KEY_SPACE \in inp /\ Frame
    \/ KEY_SPACE \in inp /\ Repeat(KEY_SPACE)

SpecRampHeld == InitRamp /\ [][NextRampHeld]_vars

\* every checkpoint is consumed and the speed is the target of the last
\* checkpoint that was not skipped
RampReachedLast ==
    /\ Exhausted(sm)
    /\ sm.current_speed = ramp_end(cfg, sm.current_speed, 1)

\* C33 (as claimed): when the ramp was activated and the trigger stayed held,
\* autorepeat events of the trigger included, and the loop has kept ticking
\* until the clock stops, longer than the whole schedule, the speed has
\* reached the target of the last checkpoint that the no-increase policy does
\* not skip.
C33_RampReachesLast ==
    (clock = MaxClock /\ sm.space_down) => RampReachedLast

----------------------------------------------------------------------------
(* Part 8: the SOCD cleaner at shutdown. The loop thread runs loop(), whose  *)
(* finally block calls _cleanup(); the main thread runs main(), whose        *)
(* finally block calls stop(); a signal makes the main thread run            *)
(* signal_handler() on top of whatever it is executing. What a write to a    *)
(* closed UInput does is decided by the evdev library: it raises or it does  *)
(* nothing.                                                                  *)

MaxSignals == 2   \* signals delivered during one run of the model

\* a call of stop() on the main thread: by the signal handler or by the
\* finally block of main()
StopCall(kind) == [kind |-> kind, pc |-> "set"]

InitClean ==
    /\ cl = [ running    |-> TRUE,     \* self.running, after start()
              ui_open    |-> TRUE,     \* self.ui has not been closed
              out        |-> {},       \* keys k with ax.out[k] true
              lp         |-> "top",    \* the loop thread: top, read, c_rel, c_close, done
              mphase     |-> "try",    \* main(): try (sleeping), finally, exited
              stack      |-> <<>>,     \* calls of stop() on the main thread, innermost last
              signals    |-> 0,        \* history: signals delivered
              releases   |-> 0,        \* history: passes of _cleanup that wrote key releases
              closes     |-> 0,        \* history: calls of self.ui.close()
              late_write |-> FALSE ]   \* history: ui.write()/ui.syn() called after ui.close()
    /\ SocdAbsent /\ StraferAbsent /\ EarlyAbsent
    /\ twin = Absent /\ scroll = Absent /\ hop = Absent /\ boot = Absent /\ mgr = Absent

CleanFrame == UNCHANGED <<socdVars, straferVars, earlyVars, twin, scroll, hop, boot, mgr>>

\* the record after a call of ui.write() or ui.syn()
ui_call(c) == [c EXCEPT !.late_write = @ \/ ~c.ui_open]

\* the record after the release block of _cleanup(): one key-up per key that
\* is out, then syn(); self.ui stays set after close(), so the block runs in
\* every call, and ax.out is left as it is
release_block(c) ==
    [ui_call(c) EXCEPT !.releases = IF c.out # {} THEN @ + 1 ELSE @]

\* the record after self.ui.close() inside try/except
close_block(c) == [c EXCEPT !.ui_open = FALSE, !.closes = @ + 1]

\* the main thread after SystemExit or another exception leaves the innermost
\* call of stop(): signal handlers do not catch it; from the try block of
\* main() it enters the finally block, which calls stop(); raised inside the
\* finally block it ends the process
unwind(c) ==
    IF c.mphase = "try"
    THEN [c EXCEPT !.mphase = "finally", !.stack = <<StopCall("finally")>>]
    ELSE [c EXCEPT !.mphase = "exited", !.stack = <<>>]

Top == cl.stack[Len(cl.stack)]

set_top(c, pc) == [c EXCEPT !.stack[Len(c.stack)].pc = pc]

MainRuns == cl.mphase # "exited" /\ cl.stack # <<>>

LoopRuns == cl.mphase # "exited"   \* a daemon thread ends with the process

\* while self.running:
LoopCheck ==
    /\ LoopRuns /\ cl.lp = "top"
    /\ cl' = [cl EXCEPT !.lp = IF cl.running THEN "read" ELSE "c_rel"]
    /\ CleanFrame

\* select() times out, or the events read are skipped because running is false
LoopNoEvent ==
    /\ LoopRuns /\ cl.lp = "read"
    /\ cl' = [cl EXCEPT !.lp = "top"]
    /\ CleanFrame

\* an axis key event changes ax.out[k] and is written to the virtual keyboard;
\* an exception of the write is caught inside the loop
LoopEvent(k) ==
    /\ LoopRuns /\ cl.lp = "read" /\ cl.running
    /\ cl' = [ui_call(cl) EXCEPT
                !.out = IF k \in cl.out THEN cl.out \ {k} ELSE cl.out \cup {k},
                !.lp = "top"]
    /\ CleanFrame

\* _cleanup() in the finally block of loop(): the release block
LoopRelease(raises) ==
    /\ LoopRuns /\ cl.lp = "c_rel"
    /\ raises => ~cl.ui_open
    /\ cl' = [release_block(cl) EXCEPT !.lp = IF raises THEN "done" ELSE "c_close"]
    /\ CleanFrame

\* _cleanup() in the finally block of loop(): ungrab, close, ui.close()
LoopClose ==
    /\ LoopRuns /\ cl.lp = "c_close"
    /\ cl' = [close_block(cl) EXCEPT !.lp = "done"]
    /\ CleanFrame

\* SIGTERM or SIGINT: signal_handler() runs on the main thread
signal_handler ==
    /\ cl.mphase # "exited" /\ cl.signals < MaxSignals
    /\ cl' = [cl EXCEPT !.signals = @ + 1,
                        !.stack = Append(@, StopCall("handler"))]
    /\ CleanFrame

\* stop(): self.running = False
StopSet ==
    /\ MainRuns /\ Top.pc = "set"
    /\ cl' = [set_top(cl, "join") EXCEPT !.running = FALSE]
    /\ CleanFrame

\* stop(): main_thread.join(timeout=2) returns, the thread ended or not
StopJoin ==
    /\ MainRuns /\ Top.pc = "join"
    /\ cl' = set_top(cl, "c_rel")
    /\ CleanFrame

\* stop(): _cleanup(), the release block
StopRelease(raises) ==
    /\ MainRuns /\ Top.pc = "c_rel"
    /\ raises => ~cl.ui_open
    /\ cl' = IF raises THEN unwind(release_block(cl))
                       ELSE set_top(release_block(cl), "c_close")
    /\ CleanFrame

\* stop(): _cleanup(), ungrab, close, ui.close()
StopCleanupClose ==
    /\ MainRuns /\ Top.pc = "c_close"
    /\ cl' = set_top(close_block(cl), "ret")
    /\ CleanFrame

\* stop() returns: the handler goes on to sys.exit(0), main() ends
StopReturn ==
    /\ MainRuns /\ Top.pc = "ret"
    /\ cl' = unwind(cl)
    /\ CleanFrame

NextClean ==
    \/ LoopCheck
    \/ LoopNoEvent
    \/ \E k \in Keys : LoopEvent(k)
    \/ \E raises \in BOOLEAN : LoopRelease(raises)
    \/ LoopClose
    \/ signal_handler
    \/ StopSet
    \/ StopJoin
    \/ \E raises \in BOOLEAN : StopRelease(raises)
    \/ StopCleanupClose
    \/ StopReturn

SpecClean == InitClean /\ [][NextClean]_vars

\* C34 (as claimed): under every interleaving of the loop thread with stop()
\* and the signal handler, no write to the virtual keyboard is made after it
\* was closed, and the key-release writes and the close are executed at most
\* once per run.
C34_CleanupOnce ==
    /\ ~cl.late_write
    /\ cl.releases <= 1
    /\ cl.closes <= 1

----------------------------------------------------------------------------
(* Part 9: the scroll macro. The input thread runs listen() and              *)
(* _handle_event(); the scroll worker thread runs _scroll_worker(). Both     *)
(* read and write is_scrolling and current_scroll_value without a lock; a    *)
(* thread switch can fall between any two statements.                        *)

SCROLL_UP_VALUE == 1
SCROLL_DOWN_VALUE == -1
NoWheel == 0          \* history value: no wheel event yet

InitScroll ==
    /\ scroll = [ running      |-> TRUE,
                  is_scrolling |-> FALSE,
                  current_scroll_value |-> SCROLL_UP_VALUE,
                  held    |-> FALSE,      \* the trigger button of the device
                  ip      |-> "idle",     \* input thread: idle, reset (inside start_scrolling)
                  wp      |-> "check",    \* worker: check, write, toggle, done
                  first   |-> NoWheel,    \* history: first wheel value of this activation
                  last    |-> NoWheel,    \* history: latest wheel value of this activation
                  twice   |-> FALSE ]     \* history: a value followed itself in this activation
    /\ SocdAbsent /\ StraferAbsent /\ EarlyAbsent
    /\ twin = Absent /\ cl = Absent /\ hop = Absent /\ boot = Absent /\ mgr = Absent

ScrollFrame == UNCHANGED <<socdVars, straferVars, earlyVars, twin, cl, hop, boot, mgr>>

\* _toggle_direction
toggle_direction(v) ==
    IF v = SCROLL_UP_VALUE THEN SCROLL_DOWN_VALUE ELSE SCROLL_UP_VALUE

\* _handle_event, value 1: start_scrolling() up to and including
\* self.is_scrolling = True; a press while not scrolling is an activation
ScrollPress ==
    /\ scroll.running /\ scroll.ip = "idle" /\ ~scroll.held
    /\ scroll' = IF scroll.is_scrolling
                 THEN [scroll EXCEPT !.held = TRUE]
                 ELSE [scroll EXCEPT !.held = TRUE, !.is_scrolling = TRUE,
                                     !.ip = "reset", !.first = NoWheel,
                                     !.last = NoWheel, !.twice = FALSE]
    /\ ScrollFrame

\* start_scrolling(): self.current_scroll_value = SCROLL_UP_VALUE
StartReset ==
    /\ scroll.ip = "reset"
    /\ scroll' = [scroll EXCEPT !.current_scroll_value = SCROLL_UP_VALUE,
                                !.ip = "idle"]
    /\ ScrollFrame

\* _handle_event, value 0: stop_scrolling() when scrolling
ScrollRelease ==
    /\ scroll.running /\ scroll.ip = "idle" /\ scroll.held
    /\ scroll' = [scroll EXCEPT !.held = FALSE, !.is_scrolling = FALSE]
    /\ ScrollFrame

\* while self.running: if not self.is_scrolling: sleep, continue; the time of
\* the next scroll has come
ScrollWorkerCheck ==
    /\ scroll.wp = "check"
    /\ ~scroll.running \/ scroll.is_scrolling
    /\ scroll' = [scroll EXCEPT !.wp = IF scroll.running THEN "write" ELSE "done"]
    /\ ScrollFrame

\* _perform_single_scroll: the wheel event carries current_scroll_value; the
\* history counts the events written while scrolling is on
PerformSingleScroll ==
    /\ scroll.wp = "write"
    /\ scroll' =
         IF scroll.is_scrolling
         THEN [scroll EXCEPT
                 !.wp = "toggle",
                 !.first = IF @ = NoWheel THEN scroll.current_scroll_value ELSE @,
                 !.last = scroll.current_scroll_value,
                 !.twice = @ \/ scroll.last = scroll.current_scroll_value]
         ELSE [scroll EXCEPT !.wp = "toggle"]
    /\ ScrollFrame

\* _toggle_direction, and back to the top of the loop
ToggleDirection ==
    /\ scroll.wp = "toggle"
    /\ scroll' = [scroll EXCEPT
                    !.current_scroll_value = toggle_direction(@),
                    !.wp = "check"]
    /\ ScrollFrame

\* stop(): self.running = False
ScrollStop ==
    /\ scroll.running /\ scroll.ip = "idle"
    /\ scroll' = [scroll EXCEPT !.running = FALSE, !.is_scrolling = FALSE]
    /\ ScrollFrame

NextScroll ==
    \/ ScrollPress
    \/ StartReset
    \/ ScrollRelease
    \/ ScrollWorkerCheck
    \/ PerformSingleScroll
    \/ ToggleDirection
    \/ ScrollStop

SpecScroll == InitScroll /\ [][NextScroll]_vars

\* C35 (as claimed): under every interleaving of the input thread and the
\* scroll worker, the first wheel event after each activation carries
\* SCROLL_UP_VALUE and the events of the activation alternate strictly
\* between the up value and the down value.
C35_FirstUpThenAlternate ==
    /\ scroll.first \in {NoWheel, SCROLL_UP_VALUE}
    /\ ~scroll.twice

----------------------------------------------------------------------------
(* Part 10: the wallhop macro. The input thread runs listen_for_input() and  *)
(* _handle_mouse_event(); the worker thread runs _moving_worker(), which     *)
(* performs one flick (_perform_single_move) when is_moving_active is set.   *)
(* A flick is a series of writes to the virtual mouse; each can fail.        *)

MaxPresses == 3    \* trigger presses during one run of the model
FlickWrites == 3   \* writes of one flick

InitHop ==
    /\ hop = [ running          |-> TRUE,
               is_moving_active |-> FALSE,
               wp       |-> "check",  \* worker: check, move, reset, dead, done
               step     |-> 0,        \* writes done in the flick in progress
               accepted |-> 0,        \* history: presses that called start_moving()
               ignored  |-> 0,        \* history: presses while is_moving_active
               flicks   |-> 0 ]       \* history: calls of _perform_single_move()
    /\ SocdAbsent /\ StraferAbsent /\ EarlyAbsent
    /\ twin = Absent /\ cl = Absent /\ scroll = Absent /\ boot = Absent /\ mgr = Absent

HopFrame == UNCHANGED <<socdVars, straferVars, earlyVars, twin, cl, scroll, boot, mgr>>

\* _handle_mouse_event, value 1: start_moving() unless a flick is active
HopPress ==
    /\ hop.running
    /\ hop.accepted + hop.ignored < MaxPresses
    /\ hop' = IF hop.is_moving_active
              THEN [hop EXCEPT !.ignored = @ + 1]
              ELSE [hop EXCEPT !.is_moving_active = TRUE, !.accepted = @ + 1]
    /\ HopFrame

\* while self.running: if not self.is_moving_active: sleep, continue;
\* otherwise _perform_single_move() begins
MovingWorkerCheck ==
    /\ hop.wp = "check"
    /\ ~hop.running \/ hop.is_moving_active
    /\ hop' = IF hop.running
              THEN [hop EXCEPT !.wp = "move", !.step = 0, !.flicks = @ + 1]
              ELSE [hop EXCEPT !.wp = "done"]
    /\ HopFrame

\* one write of the flick (_rel): when it raises, _perform_single_move prints
\* and raises again, nothing in _moving_worker catches it, the thread ends
FlickWrite(ok) ==
    /\ hop.wp = "move"
    /\ hop' = IF ~ok THEN [hop EXCEPT !.wp = "dead"]
              ELSE IF hop.step + 1 >= FlickWrites
                   THEN [hop EXCEPT !.step = @ + 1, !.wp = "reset"]
                   ELSE [hop EXCEPT !.step = @ + 1]
    /\ HopFrame

\* self.is_moving_active = False after the flick
MovingWorkerReset ==
    /\ hop.wp = "reset"
    /\ hop' = [hop EXCEPT !.is_moving_active = FALSE, !.wp = "check"]
    /\ HopFrame

\* stop(): self.running = False
HopStop ==
    /\ hop.running
    /\ hop' = [hop EXCEPT !.running = FALSE]
    /\ HopFrame

NextHop ==
    \/ HopPress
    \/ MovingWorkerCheck
    \/ \E ok \in BOOLEAN : FlickWrite(ok)
    \/ MovingWorkerReset
    \/ HopStop

SpecHop == InitHop /\ [][NextHop]_vars

\* is_moving_active is set and the only code that clears it can still run
FlagWillClear == hop.is_moving_active => hop.wp \in {"check", "move", "reset"}

\* C36 (as claimed): after every accepted press is_moving_active returns to
\* False whatever the outcome of the flick's writes (while the macro runs,
\* the flag is never left set with no code left to clear it), presses during
\* a flick are ignored, and one flick is performed per accepted press.
C36_FlickCompletes ==
    /\ hop.running => FlagWillClear
    /\ hop.flicks <= hop.accepted
    /\ hop.accepted <= hop.flicks + 1

----------------------------------------------------------------------------
(* Part 11: DahoodScrollMacro.start(). The input devices under /dev/input    *)
(* are of three kinds: readable with EV_KEY ("key"), readable without it     *)
(* ("nokey"), or not openable ("denied").                                    *)

NumDevs == 3

DevKinds == {"key", "nokey", "denied"}

InitBoot ==
    /\ \E kinds \in [1..NumDevs -> DevKinds], given \in BOOLEAN :
          boot = [ kinds    |-> kinds,  \* /dev/input/event1..NumDevs
                   device_path |-> given,  \* self.device_path is set (to event1)
                   pc       |-> "uinput",  \* uinput, open, detect, check, assign,
                                           \* listen, denied, no_devices, error
                   idx      |-> 1,         \* device examined by _auto_detect_devices
                   devices  |-> {},        \* self.devices
                   trigger_assigned |-> FALSE,  \* self.trigger_button_code exists
                   unassigned_read  |-> FALSE ] \* history: an attribute was read before assigned
    /\ SocdAbsent /\ StraferAbsent /\ EarlyAbsent
    /\ twin = Absent /\ cl = Absent /\ scroll = Absent /\ hop = Absent /\ mgr = Absent

BootFrame == UNCHANGED <<socdVars, straferVars, earlyVars, twin, cl, scroll, hop, mgr>>

\* start(): UInput(caps, name=...); PermissionError returns False
CreateVirtualMouse(ok) ==
    /\ boot.pc = "uinput"
    /\ boot' = [boot EXCEPT !.pc = IF ok THEN "open" ELSE "denied"]
    /\ BootFrame

\* _open_input_devices with self.device_path: open that device, every
\* exception is caught
OpenSpecified ==
    /\ boot.pc = "open" /\ boot.device_path
    /\ boot' = [boot EXCEPT
                  !.devices = IF boot.kinds[1] = "denied" THEN @ ELSE @ \cup {1},
                  !.pc = "check"]
    /\ BootFrame

\* _auto_detect_devices, one pass of the for loop: a device that cannot be
\* opened or has no EV_KEY is skipped; a device with EV_KEY is put into
\* self.devices and then self.trigger_button_code is read: AttributeError,
\* which only start() catches, when it was never assigned
DetectDevice ==
    /\ \/ boot.pc = "open" /\ ~boot.device_path
       \/ boot.pc = "detect"
    /\ boot.idx <= NumDevs
    /\ boot' =
         IF boot.kinds[boot.idx] = "key"
         THEN [boot EXCEPT
                 !.devices = @ \cup {boot.idx},
                 !.unassigned_read = @ \/ ~boot.trigger_assigned,
                 !.idx = @ + 1,
                 !.pc = IF boot.trigger_assigned THEN "detect" ELSE "error"]
         ELSE [boot EXCEPT !.idx = @ + 1, !.pc = "detect"]
    /\ BootFrame

\* _auto_detect_devices: the for loop is over
DetectDone ==
    /\ \/ boot.pc = "open" /\ ~boot.device_path
       \/ boot.pc = "detect"
    /\ boot.idx > NumDevs
    /\ boot' = [boot EXCEPT !.pc = "check"]
    /\ BootFrame

\* start(): if not self.devices: return False
CheckDevices ==
    /\ boot.pc = "check"
    /\ boot' = [boot EXCEPT !.pc = IF boot.devices = {} THEN "no_devices" ELSE "assign"]
    /\ BootFrame

\* start(): self.trigger_button_code = getattr(...), the worker thread is
\* started and listen() is entered
AssignTrigger ==
    /\ boot.pc = "assign"
    /\ boot' = [boot EXCEPT !.trigger_assigned = TRUE, !.pc = "listen"]
    /\ BootFrame

NextBoot ==
    \/ \E ok \in BOOLEAN : CreateVirtualMouse(ok)
    \/ OpenSpecified
    \/ DetectDevice
    \/ DetectDone
    \/ CheckDevices
    \/ AssignTrigger

SpecBoot == InitBoot /\ [][NextBoot]_vars

KeyDevs == {d \in 1..NumDevs : boot.kinds[d] = "key"}

BootEnded == boot.pc \in {"listen", "denied", "no_devices", "error"}

\* start() without a device path, the virtual mouse was created, and a
\* readable device with EV_KEY exists
AutoDetectCase ==
    /\ ~boot.device_path
    /\ boot.pc # "uinput" /\ boot.pc # "denied"
    /\ KeyDevs # {}

\* C37 (as claimed): start() without a device path and with a readable
\* EV_KEY device reads no value before it is assigned, does not abort, and
\* ends in the listen loop with those devices registered.
C37_DiscoveryCompletes ==
    AutoDetectCase =>
        /\ ~boot.unassigned_read
        /\ BootEnded => (boot.pc = "listen" /\ boot.devices = KeyDevs)

----------------------------------------------------------------------------
(* Part 12: the macro manager, one macro name. start_macro, stop_macro,      *)
(* kill_all_macros, open_config and the exit callbacks run on the Tk main    *)
(* loop, one at a time; a subprocess exits and its monitor thread posts the  *)
(* exit callback (root.after) at any time.                                   *)

MaxProcs == 3   \* subprocesses launched during one run of the model

NewProc(monitored) ==
    [ alive     |-> TRUE,
      monitored |-> monitored,   \* a monitor thread was started for it
      cb        |-> "none" ]     \* its exit callback: none, posted, run

InitMgr ==
    /\ mgr = [ procs   |-> <<>>,   \* the subprocesses launched, in order
               tracked |-> 0,      \* running_macros[name] as an index of procs, 0: no entry
               tab     |-> FALSE,  \* "Config: name" is in tabview._tab_dict
               wrong_removal |-> FALSE ] \* history: a callback removed another process's entry
    /\ SocdAbsent /\ StraferAbsent /\ EarlyAbsent
    /\ twin = Absent /\ cl = Absent /\ scroll = Absent /\ hop = Absent /\ boot = Absent

MgrFrame == UNCHANGED <<socdVars, straferVars, earlyVars, twin, cl, scroll, hop, boot>>

\* open_config from the macro row: tabview.add() puts the tab into the table,
\* then ConfigTab() raises AttributeError (ConfigTab has no save_config)
open_config ==
    /\ ~mgr.tab
    /\ mgr' = [mgr EXCEPT !.tab = TRUE]
    /\ MgrFrame

\* start_macro with a device picked: refused when the name has an entry;
\* otherwise Popen, the entry is recorded, open_config is called, and only
\* when open_config returns (the tab exists already) the monitor thread is
\* started; its exception is caught by start_macro. The callbacks posted
\* before run inside wait_window(picker.window), ahead of Popen
start_macro ==
    /\ mgr.tracked = 0
    /\ Len(mgr.procs) < MaxProcs
    /\ \A p \in 1..Len(mgr.procs) : mgr.procs[p].cb # "posted"
    /\ mgr' = [mgr EXCEPT !.procs = Append(@, NewProc(mgr.tab)),
                          !.tracked = Len(mgr.procs) + 1,
                          !.tab = TRUE]
    /\ MgrFrame

\* stop_macro: the process group is terminated (killed after the timeout),
\* the entry and the tab are removed
stop_macro ==
    /\ mgr.tracked # 0
    /\ mgr' = [mgr EXCEPT !.procs[mgr.tracked].alive = FALSE,
                          !.tracked = 0,
                          !.tab = FALSE]
    /\ MgrFrame

\* kill_all_macros, confirmed: killpg and removal; when the process is gone
\* already, getpgid can raise ProcessLookupError and the entry is kept
kill_all_macros(lookup_ok) ==
    /\ mgr.tracked # 0
    /\ ~lookup_ok => ~mgr.procs[mgr.tracked].alive
    /\ mgr' = IF lookup_ok
              THEN [mgr EXCEPT !.procs[mgr.tracked].alive = FALSE,
                               !.tracked = 0,
                               !.tab = FALSE]
              ELSE mgr
    /\ MgrFrame

\* a subprocess exits by itself, normally or by crashing
ProcExit(p) ==
    /\ mgr.procs[p].alive
    /\ mgr' = [mgr EXCEPT !.procs[p].alive = FALSE]
    /\ MgrFrame

\* monitor_process: communicate() returns, the exit callback is posted
monitor_process(p) ==
    /\ ~mgr.procs[p].alive /\ mgr.procs[p].monitored /\ mgr.procs[p].cb = "none"
    /\ mgr' = [mgr EXCEPT !.procs[p].cb = "posted"]
    /\ MgrFrame

\* macro_finished / macro_crashed of process p: the entry of the name is
\* removed whatever process it holds, and the tab is closed
macro_finished(p) ==
    /\ mgr.procs[p].cb = "posted"
    /\ mgr' = [mgr EXCEPT !.procs[p].cb = "run",
                          !.tracked = 0,
                          !.tab = FALSE,
                          !.wrong_removal = @ \/ (mgr.tracked # 0 /\ mgr.tracked # p)]
    /\ MgrFrame

NextMgr ==
    \/ open_config
    \/ start_macro
    \/ stop_macro
    \/ \E lookup_ok \in BOOLEAN : kill_all_macros(lookup_ok)
    \/ \E p \in 1..Len(mgr.procs) : ProcExit(p)
    \/ \E p \in 1..Len(mgr.procs) : monitor_process(p)
    \/ \E p \in 1..Len(mgr.procs) : macro_finished(p)

SpecMgr == InitMgr /\ [][NextMgr]_vars

LiveProcs == {p \in 1..Len(mgr.procs) : mgr.procs[p].alive}

RemovalPending(p) == mgr.procs[p].monitored /\ mgr.procs[p].cb # "run"

\* C39 (as claimed): when a subprocess that start_macro launched and recorded
\* has exited by itself, its entry is removed in the end: while the entry is
\* there, the exit callback that removes it is still to come.
C39_ExitedEntryRemoved ==
    (mgr.tracked # 0 /\ ~mgr.procs[mgr.tracked].alive) => RemovalPending(mgr.tracked)

====
